---------------------------- MODULE Spec2Model ----------------------------
(***************************************************************************)
(* A model of pmux: the progress multiplexer of the comm-bridge            *)
(* (pwrap/ucb.go), the session directory and its trash rule, and the       *)
(* orchestration of worker, wrapper HTTP server, registration and callback *)
(* (pwrap.go: RootDir, trashFiles, Register, Callback, Run, run).          *)
(*                                                                         *)
(* Further parts model the tmux adapter (tmux/tmux.go), the control plane  *)
(* (http/pmuxapi/handlers.go), a connection to the rendezvous socket       *)
(* (http/pwrapapi/router.go, handleConn), the wrap command (cmd/wrap.go),  *)
(* the two mutexes of the bridge statement by statement, its CSV helper    *)
(* (WriteProgressUpdate), one wrapper object and the calls of its methods, *)
(* and the start-up of the wrap process of a session.                      *)
(*                                                                         *)
(* Each part has its own specifications, whose next-state relations leave  *)
(* the variables of the other parts unchanged.  The CSV helper writes      *)
(* through the multiplexer of Part 1; the wrapper object and the wrap      *)
(* start-up act on the directories and sessions of the control plane.      *)
(***************************************************************************)
EXTENDS Naturals, Sequences, FiniteSets

\* ------------------------------------------------------------------ bounds

\* Number of payloads the producer writes: p1 .. pMaxWrites.
MaxWrites == 2

\* Number of connections that announce mode=progress.
NumSubs == 2

\* Number of foreign entry names that may appear in a session directory.
MaxForeign == 1

\* Longest request body, and longest content a client writes to the socket.
MaxBody == 2

\* --------------------------------------------------------------- variables

VARIABLES
    \* UnixCommBridge (ucb.go)
    last,        \* b.last.u: 0 is nil, i > 0 is payload p_i
    clients,     \* b.clients.m: key -> channel (a channel is named by its subscriber)
    clientsLock, \* holder of b.clients.Mutex between steps: "free" or "producer"
    chan,        \* content of each subscriber's channel (capacity ChanCap)
    closed,      \* whether close(c) has been executed on the channel
    spc,         \* position of each subscriber goroutine
    skey,        \* the key a subscriber read from the clock in getTx
    firstRecv,   \* first payload a subscriber received from its channel (0: none yet)
    lastRecv,    \* latest payload a subscriber received from its channel (0: none yet)
    disorder,    \* a subscriber received a payload that is not later than the one before
    subStart,    \* number of Writes that had returned when the subscriber entered getTx
    wpc,         \* position of the producer inside Write
    wtodo,       \* keys the range loop of Write has not visited yet
    wcur,        \* key the range loop of Write is at
    nwritten,    \* index of the payload of the current (or last) Write
    ndone,       \* number of Writes that have returned
    clock,       \* last value read from time.Now().UnixNano()
    ctxDone,     \* the context handed to Open is cancelled
    panicked,    \* the process holding the bridge has panicked
    listening,   \* the listener of the bridge is open (Close has not run)
    opc,         \* position of Open: "accept", or "returned"
    accAtClose,  \* connections that had been accepted when the listener was closed
    fanned,      \* latest payload Write has sent to a subscriber channel (0: none)
    tickDone,    \* the tick loop of the worker has returned (mockCmd.Run)
    \* session directory (pwrap.go)
    files,       \* paths (relative to the root directory) that are regular files
    dirs,        \* paths (relative to the root directory) that are directories
    sock,        \* the rendezvous socket file <tempdir>/<sid>.sock exists
    tdone,       \* trashFiles has just returned (nothing happened since)
    preFiles,    \* files when that trashFiles call started
    preDirs,     \* dirs when that trashFiles call started
    preSock,     \* sock when that trashFiles call started
    found,       \* entries counted by that trashFiles call
    terr,        \* the error that trashFiles call returned: "nil", or its kind
    fresh,       \* "new": RootDir created the session directory and nothing touched
                 \* it since; "new+extra": but for one foreign file; "no" otherwise
    \* orchestrator (pwrap.go Run / run)
    rpc,         \* position of the orchestrator
    regURL,      \* p.regURL is set
    regPosts,    \* number of registration POSTs made
    regOK,       \* the registration POST returned 200
    worker,      \* "none", "running", "exited"
    workerEnd,   \* how the worker ended: "", "ok", "fail", "killed"
    cmdErr,      \* error returned by cmd.Run(): "nil", "exit", "canceled", "start"
    srv,         \* "none", "serving", "failed", "closed"
    gpc,         \* position of the server goroutine
    errc,        \* content of the error channel (capacity 1)
    ctxRun,      \* the context of run is cancelled
    shutdown,    \* srv.Shutdown has been invoked
    callbacks,   \* statuses of the callback POSTs made, in order
    innerErr,    \* error returned by run: "" before it returns, "nil" or an error kind
    runErr,      \* error returned by Run: "" while running, "nil" or an error kind
    srvFailedFirst, \* the server failed while the worker was running
    workerFirst, \* the worker exited on its own before the server ended
    signalled,   \* a SIGHUP or interrupt was delivered while Run was in progress
    portOK,      \* freeport.GetFreePort returned a port
    cbOK,        \* the callback POST returned 200
    \* terminal-multiplexer adapter (tmux/tmux.go)
    sessions,    \* names of the sessions the tmux server runs
    top,         \* the adapter call that returned last: operation, argument, result
    phase,       \* per valid identifier: "none", then "started" after a NewSession
                 \* that succeeded, "killed" after a KillSession that succeeded,
                 \* "killfailed" after a KillSession of a started session that failed
    ended,       \* identifiers whose session ended because its command exited
    \* control plane (http/pmuxapi/handlers.go) and the session directories
    fsFiles,     \* files below the root directory: path -> content (a sequence of lines)
    fsDirs,      \* directories below the root directory
    used,        \* UUIDs that NewSID has handed out
    sidWritten,  \* identifiers whose sid file StartSession wrote and nothing trashed since
    resp,        \* the request answered last: handler, identifier, status, state before
    \* a connection to the rendezvous socket (http/pwrapapi/router.go, pwrap/ucb.go)
    onCommand,   \* b.onCommand is set
    cpc,         \* position of the connection: "new" (no bridge yet), "listen",
                 \* "conn", "dispatch", "readcmd", "streaming", "closed"
    cwire,       \* what was written to the connection and the bridge has not read
    csent,       \* the request: who wrote to the connection, and the body
    chdr,        \* the header line handleConn read
    handled,     \* the commands the handler was invoked with, in order
    cerr,        \* the error handleConn logged: "" (none), or its kind
    csubs,       \* progress subscribers registered (getTx) for the connection
    \* the wrap process (cmd/wrap.go)
    stderrTo,    \* where PreRun sent the log output: "" (PreRun has not run), "file"
                 \* (the file named by --stderr), "none" (no flag), "openfail"
    stderrFile,  \* the messages the wrap process appended to the session's stderr file
    wrapDone,    \* the wrap process has returned
    \* the two mutexes of the bridge, statement by statement (pwrap/ucb.go)
    holder,      \* per mutex ("last", "clients"): the goroutine that holds it, or Free
    lpc,         \* per goroutine: the statement of its code it executes next
    acc,         \* the access of the statement executed last: who touched the field
                 \* guarded by which mutex (mu is "none" when it touched neither)
    \* the CSV helper of the bridge (pwrap/ucb.go, WriteProgressUpdate)
    wroteCSVHeader, \* b.wroteCSVHeader
    payloads,    \* what WriteProgressUpdate handed to Write, call by call
    calls,       \* the arguments of the calls of WriteProgressUpdate, in order
    \* one wrapper object and the calls of its methods (pwrap.go)
    pwOwn,       \* the identifier the wrapper was made with ("": no wrapper yet)
    pwSid,       \* p.sid
    pwOp,        \* the method that returned last, and its error
    \* the start-up of the wrap process of a session (cmd/wrap.go)
    wproc        \* per identifier NewSID yields, the wrap process tmux launched for
                 \* it: "none" (not in Run yet), "notified" (it handles SIGHUP),
                 \* "made" (pwrap.New returned), "fatal" (pwrap.New failed)

openVars == <<listening, opc, accAtClose, fanned, tickDone>>
bridgeVars == <<last, clients, clientsLock, chan, closed, spc, skey, firstRecv, lastRecv, disorder, subStart,
                wpc, wtodo, wcur, nwritten, ndone, clock, ctxDone, panicked, openVars>>
trashVars == <<files, dirs, sock, tdone, preFiles, preDirs, preSock, found, terr, fresh>>
runVars == <<rpc, regURL, regPosts, regOK, worker, workerEnd, cmdErr, srv, gpc, errc,
             ctxRun, shutdown, callbacks, innerErr, runErr, srvFailedFirst, workerFirst,
             signalled, portOK, cbOK>>
tmuxVars == <<sessions, top, phase, ended>>
apiVars == <<fsFiles, fsDirs, used, sidWritten, resp>>
cmdVars == <<onCommand, cpc, cwire, csent, chdr, handled, cerr, csubs>>
wrapVars == <<stderrTo, stderrFile, wrapDone>>
lockVars == <<holder, lpc, acc>>
csvVars == <<wroteCSVHeader, payloads, calls>>
pwVars == <<pwOwn, pwSid, pwOp>>
startVars == <<wproc>>
vars == <<bridgeVars, trashVars, runVars, tmuxVars, apiVars, cmdVars, wrapVars, lockVars, csvVars,
          pwVars, startVars>>

\* ====================================================================
\* Part 1: UnixCommBridge, the progress multiplexer
\* ====================================================================

Subs == 1 .. NumSubs

\* make(chan string, 1)
ChanCap == 1

\* The goroutines of the bridge run while the process that holds it does: a
\* panic ends the process, and so does the return of the worker's main loop.
ProcessAlive == ~panicked /\ ~tickDone

InitBridge ==
    /\ last = 0
    /\ clients = <<>>
    /\ clientsLock = "free"
    /\ chan = [s \in Subs |-> <<>>]
    /\ closed = [s \in Subs |-> FALSE]
    /\ spc = [s \in Subs |-> "init"]
    /\ skey = [s \in Subs |-> 0]
    /\ firstRecv = [s \in Subs |-> 0]
    /\ lastRecv = [s \in Subs |-> 0]
    /\ disorder = [s \in Subs |-> FALSE]
    /\ subStart = [s \in Subs |-> 0]
    /\ wpc = "idle"
    /\ wtodo = {}
    /\ wcur = 0
    /\ nwritten = 0
    /\ ndone = 0
    /\ clock = 0
    /\ ctxDone = FALSE
    /\ panicked = FALSE
    /\ listening = TRUE
    /\ opc = "accept"
    /\ accAtClose = {}
    /\ fanned = 0
    /\ tickDone = FALSE

\* ---- the producer: UnixCommBridge.Write

\* A Write that keeps the payload it finds in last.
StoreLastOnce(old, p) == IF old = 0 THEN p ELSE old

\* b.last.u = &s, under b.last.Lock()
StoreLast(old, p) == p

\* Write, lines 120-124: the payload becomes last, under the last mutex.
WriteStore ==
    /\ ProcessAlive
    /\ UNCHANGED <<trashVars, runVars, tmuxVars, apiVars, cmdVars, wrapVars, lockVars, csvVars, pwVars, startVars>>
    /\ UNCHANGED openVars
    /\ wpc = "idle"
    /\ nwritten < MaxWrites
    /\ nwritten' = nwritten + 1
    /\ last' = StoreLast(last, nwritten + 1)
    /\ wpc' = "lock"
    /\ UNCHANGED <<clients, clientsLock, chan, closed, spc, skey, firstRecv, lastRecv, disorder, subStart,
                   wtodo, wcur, ndone, clock, ctxDone, panicked>>

\* Write, lines 126-128: b.clients.Lock(), then range over the map.
WriteLock ==
    /\ ProcessAlive
    /\ UNCHANGED <<trashVars, runVars, tmuxVars, apiVars, cmdVars, wrapVars, lockVars, csvVars, pwVars, startVars>>
    /\ UNCHANGED openVars
    /\ wpc = "lock"
    /\ clientsLock = "free"
    /\ clientsLock' = "producer"
    /\ wtodo' = DOMAIN clients
    /\ wpc' = "range"
    /\ UNCHANGED <<last, clients, chan, closed, spc, skey, firstRecv, lastRecv, disorder, subStart,
                   wcur, nwritten, ndone, clock, ctxDone, panicked>>

\* Write, line 128: the range loop moves to its next entry (Go fixes no order).
WriteNext ==
    /\ ProcessAlive
    /\ UNCHANGED <<trashVars, runVars, tmuxVars, apiVars, cmdVars, wrapVars, lockVars, csvVars, pwVars, startVars>>
    /\ UNCHANGED openVars
    /\ wpc = "range"
    /\ \E k \in wtodo :
          /\ wcur' = k
          /\ wtodo' = wtodo \ {k}
    /\ wpc' = "send"
    /\ UNCHANGED <<last, clients, clientsLock, chan, closed, spc, skey, firstRecv, lastRecv, disorder, subStart,
                   nwritten, ndone, clock, ctxDone, panicked>>

\* Write, line 129: v <- s.  The send waits while the channel is full; a send
\* on a closed channel (also one that was waiting when the channel is closed)
\* panics.
WriteSend ==
    /\ ProcessAlive
    /\ UNCHANGED <<trashVars, runVars, tmuxVars, apiVars, cmdVars, wrapVars, lockVars, csvVars, pwVars, startVars>>
    /\ wpc = "send"
    /\ LET c == clients[wcur] IN
          IF closed[c]
          THEN /\ panicked' = TRUE
               /\ UNCHANGED <<chan, wpc, fanned>>
          ELSE /\ Len(chan[c]) < ChanCap
               /\ chan' = [chan EXCEPT ![c] = Append(@, nwritten)]
               /\ fanned' = nwritten
               /\ wpc' = "range"
               /\ UNCHANGED panicked
    /\ UNCHANGED <<last, clients, clientsLock, closed, spc, skey, firstRecv, lastRecv, disorder, subStart,
                   wtodo, wcur, nwritten, ndone, clock, ctxDone>>
    /\ UNCHANGED <<listening, opc, accAtClose, tickDone>>

\* Write, lines 127 and 131: the loop is over, the deferred Unlock runs, Write returns.
WriteReturn ==
    /\ ProcessAlive
    /\ UNCHANGED <<trashVars, runVars, tmuxVars, apiVars, cmdVars, wrapVars, lockVars, csvVars, pwVars, startVars>>
    /\ UNCHANGED openVars
    /\ wpc = "range"
    /\ wtodo = {}
    /\ clientsLock' = "free"
    /\ wpc' = "idle"
    /\ wcur' = 0
    /\ ndone' = nwritten
    /\ UNCHANGED <<last, clients, chan, closed, spc, skey, firstRecv, lastRecv, disorder, subStart,
                   wtodo, nwritten, clock, ctxDone, panicked>>

\* ---- the listener: Open and Close

\* Connections that Open has accepted.
Accepted == {s \in Subs : spc[s] # "init"}

\* An Accept that goes on handing over connections after Close.
SubAcceptAfterClose(s) ==
    /\ ProcessAlive
    /\ UNCHANGED <<trashVars, runVars, tmuxVars, apiVars, cmdVars, wrapVars, lockVars, csvVars, pwVars, startVars>>
    /\ opc = "accept"
    /\ spc[s] = "init"
    /\ \A r \in Subs : r < s => spc[r] # "init"
    /\ spc' = [spc EXCEPT ![s] = "conn"]
    /\ UNCHANGED <<last, clients, clientsLock, chan, closed, skey, firstRecv, lastRecv, disorder, subStart,
                   wpc, wtodo, wcur, nwritten, ndone, clock, ctxDone, panicked>>
    /\ UNCHANGED openVars

\* Open, lines 73-79: Accept hands over a connection that announces
\* mode=progress, and handleConn starts in a goroutine of its own.  The
\* connections are alike until getTx: the s-th accepted is named s.
SubAccept(s) ==
    /\ ProcessAlive
    /\ UNCHANGED <<trashVars, runVars, tmuxVars, apiVars, cmdVars, wrapVars, lockVars, csvVars, pwVars, startVars>>
    /\ opc = "accept"
    /\ listening
    /\ spc[s] = "init"
    /\ \A r \in Subs : r < s => spc[r] # "init"
    /\ spc' = [spc EXCEPT ![s] = "conn"]
    /\ UNCHANGED <<last, clients, clientsLock, chan, closed, skey, firstRecv, lastRecv, disorder, subStart,
                   wpc, wtodo, wcur, nwritten, ndone, clock, ctxDone, panicked>>
    /\ UNCHANGED openVars

\* Open, lines 74-77: Accept fails on the closed listener, Open returns.
OpenReturn ==
    /\ ProcessAlive
    /\ UNCHANGED <<trashVars, runVars, tmuxVars, apiVars, cmdVars, wrapVars, lockVars, csvVars, pwVars, startVars>>
    /\ opc = "accept"
    /\ ~listening
    /\ opc' = "returned"
    /\ UNCHANGED <<last, clients, clientsLock, chan, closed, spc, skey, firstRecv, lastRecv, disorder, subStart,
                   wpc, wtodo, wcur, nwritten, ndone, clock, ctxDone, panicked>>
    /\ UNCHANGED <<listening, accAtClose, fanned, tickDone>>

\* Close, lines 84-87: the listener is closed.  The clients map, the channels
\* and the accepted connections are left alone.
BridgeClose ==
    /\ ProcessAlive
    /\ UNCHANGED <<trashVars, runVars, tmuxVars, apiVars, cmdVars, wrapVars, lockVars, csvVars, pwVars, startVars>>
    /\ listening
    /\ listening' = FALSE
    /\ accAtClose' = Accepted
    /\ UNCHANGED <<last, clients, clientsLock, chan, closed, spc, skey, firstRecv, lastRecv, disorder, subStart,
                   wpc, wtodo, wcur, nwritten, ndone, clock, ctxDone, panicked>>
    /\ UNCHANGED <<opc, fanned, tickDone>>

\* ---- a subscriber: handleConn -> writeUpdates -> getTx

\* A getTx that seeds nothing.
SeedNothing(l) == <<>>

\* getTx, lines 170-172: the channel is seeded with the current last, if any.
Seed(l) == IF l # 0 THEN <<l>> ELSE <<>>

\* time.Now().UnixNano(): the clock does not go back, and two reads may
\* return the same value.  Only equality of keys matters: the first read is 1.
ClockReads(c) == {c, c + 1} \ {0}

\* getTx, lines 165-173: under the last mutex, read the clock for the key and
\* seed the new channel.  The mutex orders the subscriptions: subscriber s is
\* the s-th to get here.
SubGetTx(s) ==
    /\ ProcessAlive
    /\ UNCHANGED <<trashVars, runVars, tmuxVars, apiVars, cmdVars, wrapVars, lockVars, csvVars, pwVars, startVars>>
    /\ UNCHANGED openVars
    /\ spc[s] = "conn"
    /\ \A r \in Subs : r < s => spc[r] \notin {"init", "conn"}
    /\ \E k \in ClockReads(clock) :
          /\ skey' = [skey EXCEPT ![s] = k]
          /\ clock' = k
    /\ chan' = [chan EXCEPT ![s] = Seed(last)]
    /\ subStart' = [subStart EXCEPT ![s] = ndone]
    /\ spc' = [spc EXCEPT ![s] = "reg"]
    /\ UNCHANGED <<last, clients, clientsLock, closed, firstRecv, lastRecv, disorder,
                   wpc, wtodo, wcur, nwritten, ndone, ctxDone, panicked>>

\* The payload a channel holds for its subscriber (0: the channel is empty).
SeededPayload(c) == IF c = <<>> THEN 0 ELSE Head(c)

\* getTx, lines 175-180: under the clients mutex, b.clients.m[key] = c.
SubRegister(s) ==
    /\ ProcessAlive
    /\ UNCHANGED <<trashVars, runVars, tmuxVars, apiVars, cmdVars, wrapVars, lockVars, csvVars, pwVars, startVars>>
    /\ spc[s] = "reg"
    /\ clientsLock = "free"
    /\ clients' = [k \in DOMAIN clients \cup {skey[s]} |->
                      IF k = skey[s] THEN s ELSE clients[k]]
    /\ spc' = [spc EXCEPT ![s] = "loop"]
    /\ UNCHANGED <<last, clientsLock, chan, closed, skey, firstRecv, lastRecv, disorder, subStart,
                   wpc, wtodo, wcur, nwritten, ndone, clock, ctxDone, panicked>>
    /\ UNCHANGED <<listening, opc, accAtClose, fanned, tickDone>>

\* writeUpdates, line 201: u := <-c.c
SubRecv(s) ==
    /\ ProcessAlive
    /\ UNCHANGED <<trashVars, runVars, tmuxVars, apiVars, cmdVars, wrapVars, lockVars, csvVars, pwVars, startVars>>
    /\ UNCHANGED openVars
    /\ spc[s] = "loop"
    /\ chan[s] # <<>>
    /\ firstRecv' = [firstRecv EXCEPT ![s] = IF @ = 0 THEN Head(chan[s]) ELSE @]
    /\ lastRecv' = [lastRecv EXCEPT ![s] = Head(chan[s])]
    /\ disorder' = [disorder EXCEPT ![s] = @ \/ Head(chan[s]) <= lastRecv[s]]
    /\ chan' = [chan EXCEPT ![s] = Tail(@)]
    /\ spc' = [spc EXCEPT ![s] = "write"]
    /\ UNCHANGED <<last, clients, clientsLock, closed, skey, subStart,
                   wpc, wtodo, wcur, nwritten, ndone, clock, ctxDone, panicked>>

\* writeUpdates, line 204: w.Write succeeds, the loop goes on.
SubWriteOk(s) ==
    /\ ProcessAlive
    /\ UNCHANGED <<trashVars, runVars, tmuxVars, apiVars, cmdVars, wrapVars, lockVars, csvVars, pwVars, startVars>>
    /\ UNCHANGED openVars
    /\ spc[s] = "write"
    /\ spc' = [spc EXCEPT ![s] = "loop"]
    /\ UNCHANGED <<last, clients, clientsLock, chan, closed, skey, firstRecv, lastRecv, disorder, subStart,
                   wpc, wtodo, wcur, nwritten, ndone, clock, ctxDone, panicked>>

\* writeUpdates, lines 204-206: w.Write fails (the peer is gone), return err.
SubWriteErr(s) ==
    /\ ProcessAlive
    /\ UNCHANGED <<trashVars, runVars, tmuxVars, apiVars, cmdVars, wrapVars, lockVars, csvVars, pwVars, startVars>>
    /\ UNCHANGED openVars
    /\ spc[s] = "write"
    /\ spc' = [spc EXCEPT ![s] = "close"]
    /\ UNCHANGED <<last, clients, clientsLock, chan, closed, skey, firstRecv, lastRecv, disorder, subStart,
                   wpc, wtodo, wcur, nwritten, ndone, clock, ctxDone, panicked>>

\* writeUpdates, line 204: the peer has stopped reading and the connection's
\* buffers are full: w.Write does not return, the goroutine drains no more.
SubStall(s) ==
    /\ ProcessAlive
    /\ UNCHANGED <<trashVars, runVars, tmuxVars, apiVars, cmdVars, wrapVars, lockVars, csvVars, pwVars, startVars>>
    /\ UNCHANGED openVars
    /\ spc[s] = "write"
    /\ spc' = [spc EXCEPT ![s] = "stalled"]
    /\ UNCHANGED <<last, clients, clientsLock, chan, closed, skey, firstRecv, lastRecv, disorder, subStart,
                   wpc, wtodo, wcur, nwritten, ndone, clock, ctxDone, panicked>>

\* writeUpdates, lines 199-200: case <-ctx.Done(): return ctx.Err()
SubCtxDone(s) ==
    /\ ProcessAlive
    /\ UNCHANGED <<trashVars, runVars, tmuxVars, apiVars, cmdVars, wrapVars, lockVars, csvVars, pwVars, startVars>>
    /\ UNCHANGED openVars
    /\ spc[s] = "loop"
    /\ ctxDone
    /\ spc' = [spc EXCEPT ![s] = "close"]
    /\ UNCHANGED <<last, clients, clientsLock, chan, closed, skey, firstRecv, lastRecv, disorder, subStart,
                   wpc, wtodo, wcur, nwritten, ndone, clock, ctxDone, panicked>>

\* tx.close, line 185: close(c), before the clients mutex is taken.
SubClose(s) ==
    /\ ProcessAlive
    /\ UNCHANGED <<trashVars, runVars, tmuxVars, apiVars, cmdVars, wrapVars, lockVars, csvVars, pwVars, startVars>>
    /\ UNCHANGED openVars
    /\ spc[s] = "close"
    /\ closed' = [closed EXCEPT ![s] = TRUE]
    /\ spc' = [spc EXCEPT ![s] = "unreg"]
    /\ UNCHANGED <<last, clients, clientsLock, chan, skey, firstRecv, lastRecv, disorder, subStart,
                   wpc, wtodo, wcur, nwritten, ndone, clock, ctxDone, panicked>>

\* tx.close, lines 186-188: under the clients mutex, delete(b.clients.m, key).
SubUnregister(s) ==
    /\ ProcessAlive
    /\ UNCHANGED <<trashVars, runVars, tmuxVars, apiVars, cmdVars, wrapVars, lockVars, csvVars, pwVars, startVars>>
    /\ UNCHANGED openVars
    /\ spc[s] = "unreg"
    /\ clientsLock = "free"
    /\ clients' = [k \in DOMAIN clients \ {skey[s]} |-> clients[k]]
    /\ spc' = [spc EXCEPT ![s] = "done"]
    /\ UNCHANGED <<last, clientsLock, chan, closed, skey, firstRecv, lastRecv, disorder, subStart,
                   wpc, wtodo, wcur, nwritten, ndone, clock, ctxDone, panicked>>

\* The context handed to Open is cancelled by its owner (in the mock worker:
\* by the command handler, on a command that contains "cancel").
CtxCancel ==
    /\ ProcessAlive
    /\ UNCHANGED <<trashVars, runVars, tmuxVars, apiVars, cmdVars, wrapVars, lockVars, csvVars, pwVars, startVars>>
    /\ UNCHANGED openVars
    /\ ~ctxDone
    /\ ctxDone' = TRUE
    /\ UNCHANGED <<last, clients, clientsLock, chan, closed, spc, skey, firstRecv, lastRecv, disorder, subStart,
                   wpc, wtodo, wcur, nwritten, ndone, clock, panicked>>

NextBridge ==
    \/ WriteStore
    \/ WriteLock
    \/ WriteNext
    \/ WriteSend
    \/ WriteReturn
    \/ \E s \in Subs : SubGetTx(s)
    \/ \E s \in Subs : SubRegister(s)
    \/ \E s \in Subs : SubRecv(s)
    \/ \E s \in Subs : SubWriteOk(s)
    \/ \E s \in Subs : SubWriteErr(s)
    \/ \E s \in Subs : SubStall(s)
    \/ \E s \in Subs : SubCtxDone(s)
    \/ \E s \in Subs : SubClose(s)
    \/ \E s \in Subs : SubUnregister(s)
    \/ CtxCancel
    \/ \E s \in Subs : SubAccept(s)
    \/ OpenReturn
    \/ BridgeClose

\* The bridge as long as nobody closes it: Open goes on accepting.
NextOpen ==
    \/ WriteStore
    \/ WriteLock
    \/ WriteNext
    \/ WriteSend
    \/ WriteReturn
    \/ \E s \in Subs : SubAccept(s)
    \/ \E s \in Subs : SubGetTx(s)
    \/ \E s \in Subs : SubRegister(s)
    \/ \E s \in Subs : SubRecv(s)
    \/ \E s \in Subs : SubWriteOk(s)
    \/ \E s \in Subs : SubWriteErr(s)
    \/ \E s \in Subs : SubStall(s)
    \/ \E s \in Subs : SubCtxDone(s)
    \/ \E s \in Subs : SubClose(s)
    \/ \E s \in Subs : SubUnregister(s)
    \/ CtxCancel

\* ---- the mock worker (examples/mockcmd): the producer is the tick loop

\* mockCmd.Run, lines 45-51: a tick.  The select takes the timer only while
\* the context is live: once it is cancelled the other case is ready at once.
MockTick ==
    /\ ~ctxDone
    /\ WriteStore

\* mockCmd.Run: between two ticks the loop finds the context cancelled and
\* returns; the deferred close function closes the bridge, and the worker
\* process ends with status 0.
TickExit ==
    /\ ProcessAlive
    /\ UNCHANGED <<trashVars, runVars, tmuxVars, apiVars, cmdVars, wrapVars, lockVars, csvVars, pwVars, startVars>>
    /\ wpc = "idle"
    /\ ctxDone
    /\ tickDone' = TRUE
    /\ listening' = FALSE
    /\ accAtClose' = IF listening THEN Accepted ELSE accAtClose
    /\ UNCHANGED <<last, clients, clientsLock, chan, closed, spc, skey, firstRecv, lastRecv, disorder, subStart,
                   wpc, wtodo, wcur, nwritten, ndone, clock, ctxDone, panicked>>
    /\ UNCHANGED <<opc, fanned>>

NextMock ==
    \/ MockTick
    \/ WriteLock
    \/ WriteNext
    \/ WriteSend
    \/ WriteReturn
    \/ \E s \in Subs : SubGetTx(s)
    \/ \E s \in Subs : SubRegister(s)
    \/ \E s \in Subs : SubRecv(s)
    \/ \E s \in Subs : SubWriteOk(s)
    \/ \E s \in Subs : SubWriteErr(s)
    \/ \E s \in Subs : SubStall(s)
    \/ \E s \in Subs : SubCtxDone(s)
    \/ \E s \in Subs : SubClose(s)
    \/ \E s \in Subs : SubUnregister(s)
    \/ CtxCancel
    \/ \E s \in Subs : SubAccept(s)
    \/ OpenReturn
    \/ BridgeClose
    \/ TickExit


\* ====================================================================
\* Part 2: the session directory, RootDir and trashFiles
\* ====================================================================

\* The session identifier of the wrapper.
SID == "pmux-a"

\* files / expected: FileStderr, FileStdout, FileConfig, FileSID
expected == <<"stderr", "stdout", "config", "sid">>

Canonical == {expected[i] : i \in 1 .. Len(expected)}

\* Names of entries that are not the wrapper's; "extra-file" is the test's.
ForeignNames == <<"extra-file", "a-note", "zz">>

Foreign == {ForeignNames[i] : i \in 1 .. MaxForeign}

\* Names an entry inside a subdirectory of the session directory may have.
ChildNames == {"config", "inner"}

\* Every name of the model in lexical order, the order filepath.Walk visits in.
NameOrder == <<"a-note", "config", "extra-file", "inner", "invalid-sid", "pmux-a", "pmux-b",
               "sid", "stderr", "stdout", "zz">>

\* filepath.Join(p.rootDir, p.sid), as a path relative to the root directory
WorkDir == <<SID>>

\* The paths the model knows below the root directory.
Paths ==
    {WorkDir}
    \cup {Append(WorkDir, n) : n \in Canonical \cup Foreign}
    \cup {<<SID, n, c>> : n \in Canonical \cup Foreign, c \in ChildNames}

IsPrefix(p, q) == Len(p) <= Len(q) /\ SubSeq(q, 1, Len(p)) = p

Parent(p) == SubSeq(p, 1, Len(p) - 1)

\* filepath.Base; the root directory's own name is none of the file names
Base(p) == IF p = <<>> THEN "sessionsd" ELSE p[Len(p)]

Exists(F, D, p) == p \in F \cup D

\* os.RemoveAll(p): p and everything below it
RemoveAllFrom(S, p) == {q \in S : ~IsPrefix(p, q)}

\* ioutil readDirNames: the names in directory p, sorted
DirNames(F, D, p) ==
    SelectSeq(NameOrder, LAMBDA n : Append(p, n) \in F \cup D)

\* The function trashFiles hands to filepath.Walk (lines 408-420), on the
\* state w = [files, dirs, found, err] of the walk.
WalkFn(w, p, failed) ==
    IF failed
    THEN [w EXCEPT !.err = TRUE]
    ELSE IF Base(p) \in Canonical
         THEN [w EXCEPT !.found = @ + 1,
                        !.files = RemoveAllFrom(@, p),
                        !.dirs = RemoveAllFrom(@, p)]
         ELSE [w EXCEPT !.found = @ + 1]

RECURSIVE WalkPath(_, _), WalkNames(_, _, _)

\* filepath.walk: a file is handed to the function; a directory has its names
\* read, is handed to the function, and then each name is visited in order.
WalkPath(w, p) ==
    IF p \notin w.dirs
    THEN WalkFn(w, p, FALSE)
    ELSE LET names == DirNames(w.files, w.dirs, p)
         IN  WalkNames(WalkFn(w, p, FALSE), p, names)

\* The loop of filepath.walk over the names of directory p: an entry that is
\* gone by now (lstat fails) is handed to the function with the error, and
\* the error the function returns ends the whole walk.
WalkNames(w, p, names) ==
    IF names = <<>> \/ w.err
    THEN w
    ELSE LET q == Append(p, Head(names))
         IN  IF ~Exists(w.files, w.dirs, q)
             THEN WalkFn(w, q, TRUE)
             ELSE WalkNames(WalkPath(w, q), p, Tail(names))

\* filepath.Walk(root, fn)
Walk(F, D, root) ==
    LET w0 == [files |-> F, dirs |-> D, found |-> 0, err |-> FALSE]
    IN  IF ~Exists(F, D, root) THEN WalkFn(w0, root, TRUE) ELSE WalkPath(w0, root)

\* A count that accepts more entries than the canonical ones.
DirIsCleanAtLeast(n) == n >= Len(expected) + 1

\* trashFiles, line 421: the walk met the directory itself and nothing but
\* as many entries as there are canonical files.
DirIsClean(n) == n = Len(expected) + 1

\* A trashFiles that returns the error of the walk.
TrashFilesReturnsWalkError(F, D, s) ==
    LET w == Walk(F, D, WorkDir)
    IN  IF w.err
        THEN [files |-> w.files, dirs |-> w.dirs, sock |-> s, found |-> w.found,
              err |-> "WalkFailed"]
        ELSE IF DirIsClean(w.found)
        THEN [files |-> RemoveAllFrom(w.files, WorkDir),
              dirs |-> RemoveAllFrom(w.dirs, WorkDir),
              sock |-> s, found |-> w.found, err |-> "nil"]
        ELSE [files |-> w.files, dirs |-> w.dirs, sock |-> FALSE, found |-> w.found,
              err |-> "nil"]

\* trashFiles (lines 405-427) on files F, directories D and socket s: the
\* state it leaves, the number of entries it counted and the error it
\* returns.  The result of filepath.Walk is dropped (line 408).
TrashFilesOf(F, D, s) ==
    LET w == Walk(F, D, WorkDir)
    IN  IF DirIsClean(w.found)
        THEN [files |-> RemoveAllFrom(w.files, WorkDir),
              dirs |-> RemoveAllFrom(w.dirs, WorkDir),
              sock |-> s, found |-> w.found, err |-> "nil"]
        ELSE [files |-> w.files, dirs |-> w.dirs, sock |-> FALSE, found |-> w.found,
              err |-> "nil"]

\* os.MkdirAll(p): p and its missing parents become directories; it fails
\* when p or one of its parents is a file.
MkdirAllFails(F, p) == \E i \in 0 .. Len(p) : SubSeq(p, 1, i) \in F

MkdirAll(D, p) == D \cup {SubSeq(p, 1, i) : i \in 0 .. Len(p)}

\* RootDir, lines 107-122: each canonical file that os.Stat does not find is created.
CreateMissing(F, D, dir) ==
    F \cup {Append(dir, expected[i]) : i \in {j \in 1 .. Len(expected) :
                                              ~Exists(F, D, Append(dir, expected[j]))}}

InitTrash ==
    /\ files = {}
    /\ dirs = {<<>>}
    /\ sock = FALSE
    /\ tdone = FALSE
    /\ preFiles = {}
    /\ preDirs = {}
    /\ preSock = FALSE
    /\ found = 0
    /\ terr = ""
    /\ fresh = "no"

\* New(RootDir(path)): the option of lines 98-125.
RootDir ==
    /\ UNCHANGED <<bridgeVars, runVars, tmuxVars, apiVars, cmdVars, wrapVars, lockVars, csvVars, pwVars, startVars>>
    /\ IF MkdirAllFails(files, WorkDir)
       THEN UNCHANGED <<files, dirs>> /\ fresh' = "no"
       ELSE /\ dirs' = MkdirAll(dirs, WorkDir)
            /\ files' = CreateMissing(files, MkdirAll(dirs, WorkDir), WorkDir)
            /\ fresh' = IF WorkDir \in dirs THEN "no" ELSE "new"
    /\ tdone' = FALSE
    /\ preFiles' = {}
    /\ preDirs' = {}
    /\ preSock' = FALSE
    /\ found' = 0
    /\ terr' = ""
    /\ UNCHANGED sock

\* PWrap.trashFiles, lines 405-427.
TrashFiles ==
    /\ UNCHANGED <<bridgeVars, runVars, tmuxVars, apiVars, cmdVars, wrapVars, lockVars, csvVars, pwVars, startVars>>
    /\ LET r == TrashFilesOf(files, dirs, sock)
       IN  /\ files' = r.files
           /\ dirs' = r.dirs
           /\ sock' = r.sock
           /\ found' = r.found
           /\ terr' = r.err
    /\ preFiles' = files
    /\ preDirs' = dirs
    /\ preSock' = sock
    /\ tdone' = TRUE
    /\ UNCHANGED fresh

\* Another process (the test, the worker) creates a file: os.Create.
ExtCreate(p) ==
    /\ UNCHANGED <<bridgeVars, runVars, tmuxVars, apiVars, cmdVars, wrapVars, lockVars, csvVars, pwVars, startVars>>
    /\ ~Exists(files, dirs, p)
    /\ Parent(p) \in dirs
    /\ files' = files \cup {p}
    /\ fresh' = IF fresh = "new" /\ Len(p) = 2 /\ Base(p) \in Foreign
                THEN "new+extra" ELSE "no"
    /\ tdone' = FALSE
    /\ preFiles' = {}
    /\ preDirs' = {}
    /\ preSock' = FALSE
    /\ found' = 0
    /\ terr' = ""
    /\ UNCHANGED <<dirs, sock>>

\* Another process creates a directory in the session directory.
ExtMkdir(p) ==
    /\ UNCHANGED <<bridgeVars, runVars, tmuxVars, apiVars, cmdVars, wrapVars, lockVars, csvVars, pwVars, startVars>>
    /\ Len(p) = 2
    /\ ~Exists(files, dirs, p)
    /\ Parent(p) \in dirs
    /\ dirs' = dirs \cup {p}
    /\ fresh' = "no"
    /\ tdone' = FALSE
    /\ preFiles' = {}
    /\ preDirs' = {}
    /\ preSock' = FALSE
    /\ found' = 0
    /\ terr' = ""
    /\ UNCHANGED <<files, sock>>

\* Another process removes an entry (the test's os.RemoveAll).
ExtRemove(p) ==
    /\ UNCHANGED <<bridgeVars, runVars, tmuxVars, apiVars, cmdVars, wrapVars, lockVars, csvVars, pwVars, startVars>>
    /\ Exists(files, dirs, p)
    /\ files' = RemoveAllFrom(files, p)
    /\ dirs' = RemoveAllFrom(dirs, p)
    /\ fresh' = "no"
    /\ tdone' = FALSE
    /\ preFiles' = {}
    /\ preDirs' = {}
    /\ preSock' = FALSE
    /\ found' = 0
    /\ terr' = ""
    /\ UNCHANGED sock

\* The worker listens on the rendezvous socket: the socket file appears.
SockListen ==
    /\ UNCHANGED <<bridgeVars, runVars, tmuxVars, apiVars, cmdVars, wrapVars, lockVars, csvVars, pwVars, startVars>>
    /\ ~sock
    /\ sock' = TRUE
    /\ tdone' = FALSE
    /\ preFiles' = {}
    /\ preDirs' = {}
    /\ preSock' = FALSE
    /\ found' = 0
    /\ terr' = ""
    /\ UNCHANGED <<files, dirs, fresh>>

NextTrash ==
    \/ RootDir
    \/ TrashFiles
    \/ \E p \in Paths : ExtCreate(p)
    \/ \E p \in Paths : ExtMkdir(p)
    \/ \E p \in Paths : ExtRemove(p)
    \/ SockListen


\* ====================================================================
\* Part 3: the orchestrator, PWrap.Run and PWrap.run
\* ====================================================================

\* Outcomes of an HTTP POST to the registration URL: status 200, another
\* status, or no response at all (http.Post returns an error).
PostOutcomes == {"200", "status", "transport"}

InitRun ==
    /\ rpc = "new"
    /\ regURL = FALSE
    /\ regPosts = 0
    /\ regOK = FALSE
    /\ worker = "none"
    /\ workerEnd = ""
    /\ cmdErr = ""
    /\ srv = "none"
    /\ gpc = "none"
    /\ errc = <<>>
    /\ ctxRun = FALSE
    /\ shutdown = FALSE
    /\ callbacks = <<>>
    /\ innerErr = ""
    /\ runErr = ""
    /\ srvFailedFirst = FALSE
    /\ workerFirst = FALSE
    /\ signalled = FALSE
    /\ portOK = FALSE
    /\ cbOK = FALSE
    /\ stderrTo = ""
    /\ stderrFile = <<>>
    /\ wrapDone = FALSE

\* A Register that does not look at the status of the response.
RegisterFailsOnTransportOnly(outcome) == outcome = "transport"

\* Register, lines 254-263: the error it returns for the outcome of the POST.
RegisterFails(outcome) == outcome # "200"

\* Callback, lines 284-288: the status posted for the error handed in.
CallbackStatus(err) == IF err # "nil" THEN "error" ELSE "success"

\* A cmd.Run that reports no error whatever the exit status of the process.
CmdRunErrorIgnoresStatus(end) == "nil"

\* run, line 366: the error cmd.Run returns once the process has ended: nil
\* for status zero, an *exec.ExitError otherwise (also for a killed process).
CmdRunError(end) == IF end = "ok" THEN "nil" ELSE "exit"

\* wrap, PreRun, lines 100-111: without --stderr nothing changes; else the
\* file is opened (append, create) and, if that succeeds, becomes the log
\* output and os.Stderr.
PreRunOf(flag, opened) ==
    IF ~flag THEN "none" ELSE IF ~opened THEN "openfail" ELSE "file"

\* wrap, PreRun: StartSession passes --stderr=<root>/<sid>/stderr (pwrap.go,
\* line 216); a wrap started by hand may have no flag.
WrapPreRun(flag, opened) ==
    /\ UNCHANGED <<bridgeVars, trashVars, runVars, tmuxVars, apiVars, cmdVars, lockVars, csvVars, pwVars, startVars>>
    /\ stderrTo = ""
    /\ stderrTo' = PreRunOf(flag, opened)
    /\ UNCHANGED <<stderrFile, wrapDone>>

\* A wrap that ends on an error of Run without logging it.
WrapExitSilent ==
    /\ UNCHANGED <<bridgeVars, trashVars, runVars, tmuxVars, apiVars, cmdVars, lockVars, csvVars, pwVars, startVars>>
    /\ rpc = "returned"
    /\ ~wrapDone
    /\ wrapDone' = TRUE
    /\ UNCHANGED <<stderrTo, stderrFile>>

\* wrap, Run, lines 138-141: pw.Run has returned.  An error goes to
\* log.Fatal, which writes it to the log output and ends the process.
WrapExit ==
    /\ UNCHANGED <<bridgeVars, trashVars, runVars, tmuxVars, apiVars, cmdVars, lockVars, csvVars, pwVars, startVars>>
    /\ rpc = "returned"
    /\ ~wrapDone
    /\ wrapDone' = TRUE
    /\ stderrFile' = IF runErr # "nil" /\ stderrTo = "file"
                        THEN Append(stderrFile, runErr)
                      ELSE stderrFile
    /\ UNCHANGED stderrTo

\* New with or without the option Register(url), lines 73-78 and 128-137.
RunNew ==
    /\ UNCHANGED <<bridgeVars, trashVars, tmuxVars, apiVars, cmdVars, wrapVars, lockVars, csvVars, pwVars, startVars>>
    /\ rpc = "new"
    /\ stderrTo # ""
    /\ regURL' \in BOOLEAN
    /\ rpc' = "port"
    /\ UNCHANGED <<signalled, portOK, cbOK, regPosts, regOK, worker, workerEnd, cmdErr, srv, gpc, errc,
                   ctxRun, shutdown, callbacks, innerErr, runErr, srvFailedFirst,
                   workerFirst>>

\* Run, lines 311-314: freeport.GetFreePort()
RunPort ==
    /\ UNCHANGED <<bridgeVars, trashVars, tmuxVars, apiVars, cmdVars, wrapVars, lockVars, csvVars, pwVars, startVars>>
    /\ rpc = "port"
    /\ \/ rpc' = "register" /\ portOK' = TRUE /\ UNCHANGED runErr
       \/ rpc' = "returned" /\ runErr' = "PortFailed" /\ UNCHANGED portOK
    /\ UNCHANGED <<signalled, cbOK, regURL, regPosts, regOK, worker, workerEnd, cmdErr, srv, gpc, errc,
                   ctxRun, shutdown, callbacks, innerErr, srvFailedFirst, workerFirst>>

\* Run, lines 315-317, with Register (lines 239-264): nothing is posted when
\* no URL is set; otherwise the port is posted and anything but a 200 is an error.
RunRegister ==
    /\ UNCHANGED <<bridgeVars, trashVars, tmuxVars, apiVars, cmdVars, wrapVars, lockVars, csvVars, pwVars, startVars>>
    /\ rpc = "register"
    /\ IF ~regURL
       THEN /\ rpc' = "open"
            /\ UNCHANGED <<regPosts, regOK, runErr>>
       ELSE \E o \in PostOutcomes :
               /\ regPosts' = regPosts + 1
               /\ regOK' = (o = "200")
               /\ IF RegisterFails(o)
                  THEN rpc' = "returned" /\ runErr' = "RegistrationFailed"
                  ELSE rpc' = "open" /\ UNCHANGED runErr
    /\ UNCHANGED <<signalled, portOK, cbOK, regURL, worker, workerEnd, cmdErr, srv, gpc, errc,
                   ctxRun, shutdown, callbacks, innerErr, srvFailedFirst, workerFirst>>

\* run, lines 329-333: openMore; Run, lines 318-321: an error of run is returned as is.
RunOpen ==
    /\ UNCHANGED <<bridgeVars, trashVars, tmuxVars, apiVars, cmdVars, wrapVars, lockVars, csvVars, pwVars, startVars>>
    /\ rpc = "open"
    /\ \/ rpc' = "spawn" /\ UNCHANGED <<innerErr, runErr>>
       \/ rpc' = "returned" /\ innerErr' = "OpenFailed" /\ runErr' = "OpenFailed"
    /\ UNCHANGED <<signalled, portOK, cbOK, regURL, regPosts, regOK, worker, workerEnd, cmdErr, srv, gpc, errc,
                   ctxRun, shutdown, callbacks, srvFailedFirst, workerFirst>>

\* run, lines 340-364: the context, the command, the server and the error
\* channel are made and the server goroutine is started.
RunSpawn ==
    /\ UNCHANGED <<bridgeVars, trashVars, tmuxVars, apiVars, cmdVars, wrapVars, lockVars, csvVars, pwVars, startVars>>
    /\ rpc = "spawn"
    /\ rpc' = "cmdstart"
    /\ gpc' = "listen"
    /\ srv' = "serving"
    /\ UNCHANGED <<signalled, portOK, cbOK, regURL, regPosts, regOK, worker, workerEnd, cmdErr, errc,
                   ctxRun, shutdown, callbacks, innerErr, runErr, srvFailedFirst,
                   workerFirst>>

\* run, line 366, cmd.Run() up to the start of the process: with the context
\* already done the command is not started and the context's error is
\* returned; otherwise the process starts, or fails to start.
RunCmdStart ==
    /\ UNCHANGED <<bridgeVars, trashVars, tmuxVars, apiVars, cmdVars, wrapVars, lockVars, csvVars, pwVars, startVars>>
    /\ rpc = "cmdstart"
    /\ IF ctxRun
       THEN /\ cmdErr' = "canceled"
            /\ rpc' = "cmddone"
            /\ UNCHANGED worker
       ELSE \/ /\ worker' = "running"
               /\ rpc' = "cmdwait"
               /\ UNCHANGED cmdErr
            \/ /\ cmdErr' = "start"
               /\ rpc' = "cmddone"
               /\ UNCHANGED worker
    /\ UNCHANGED <<signalled, portOK, cbOK, regURL, regPosts, regOK, workerEnd, srv, gpc, errc,
                   ctxRun, shutdown, callbacks, innerErr, runErr, srvFailedFirst,
                   workerFirst>>

\* The worker process exits on its own, with status zero or not.
WorkerExit ==
    /\ UNCHANGED <<bridgeVars, trashVars, tmuxVars, apiVars, cmdVars, wrapVars, lockVars, csvVars, pwVars, startVars>>
    /\ worker = "running"
    /\ worker' = "exited"
    /\ workerEnd' \in {"ok", "fail"}
    /\ workerFirst' = (gpc = "listen")
    /\ UNCHANGED <<signalled, portOK, cbOK, rpc, regURL, regPosts, regOK, cmdErr, srv, gpc, errc,
                   ctxRun, shutdown, callbacks, innerErr, runErr, srvFailedFirst>>

\* run, line 345, exec.CommandContext: the process is killed once the context is done.
WorkerKilled ==
    /\ UNCHANGED <<bridgeVars, trashVars, tmuxVars, apiVars, cmdVars, wrapVars, lockVars, csvVars, pwVars, startVars>>
    /\ worker = "running"
    /\ ctxRun
    /\ worker' = "exited"
    /\ workerEnd' = "killed"
    /\ UNCHANGED <<signalled, portOK, cbOK, rpc, regURL, regPosts, regOK, cmdErr, srv, gpc, errc,
                   ctxRun, shutdown, callbacks, innerErr, runErr, srvFailedFirst,
                   workerFirst>>

\* run, line 366, cmd.Run() once the process has ended: nil for status zero,
\* an *exec.ExitError otherwise (also for a killed process).
RunCmdWait ==
    /\ UNCHANGED <<bridgeVars, trashVars, tmuxVars, apiVars, cmdVars, wrapVars, lockVars, csvVars, pwVars, startVars>>
    /\ rpc = "cmdwait"
    /\ worker = "exited"
    /\ cmdErr' = CmdRunError(workerEnd)
    /\ rpc' = "cmddone"
    /\ UNCHANGED <<signalled, portOK, cbOK, regURL, regPosts, regOK, worker, workerEnd, srv, gpc, errc,
                   ctxRun, shutdown, callbacks, innerErr, runErr, srvFailedFirst,
                   workerFirst>>

\* A run that goes on to wait for the server without shutting it down.
RunAfterCmdNoShutdown ==
    /\ UNCHANGED <<bridgeVars, trashVars, tmuxVars, apiVars, cmdVars, wrapVars, lockVars, csvVars, pwVars, startVars>>
    /\ rpc = "cmddone"
    /\ rpc' = IF cmdErr = "canceled" THEN "recvsrv" ELSE "select"
    /\ UNCHANGED <<signalled, portOK, cbOK, regURL, regPosts, regOK, worker, workerEnd, cmdErr, srv, gpc, errc,
                   ctxRun, shutdown, callbacks, innerErr, runErr, srvFailedFirst, workerFirst>>

\* run, lines 367 and 379-381: with context.Canceled the server's report is
\* awaited; otherwise the server is shut down.
RunAfterCmd ==
    /\ UNCHANGED <<bridgeVars, trashVars, tmuxVars, apiVars, cmdVars, wrapVars, lockVars, csvVars, pwVars, startVars>>
    /\ rpc = "cmddone"
    /\ IF cmdErr = "canceled"
       THEN rpc' = "recvsrv" /\ UNCHANGED shutdown
       ELSE rpc' = "select" /\ shutdown' = TRUE
    /\ UNCHANGED <<signalled, portOK, cbOK, regURL, regPosts, regOK, worker, workerEnd, cmdErr, srv, gpc, errc,
                   ctxRun, callbacks, innerErr, runErr, srvFailedFirst, workerFirst>>

\* run, lines 370-373: srvErr := <-errc, and the error for it; the deferred
\* cancel runs.
RunRecvSrv ==
    /\ UNCHANGED <<bridgeVars, trashVars, tmuxVars, apiVars, cmdVars, wrapVars, lockVars, csvVars, pwVars, startVars>>
    /\ rpc = "recvsrv"
    /\ errc # <<>>
    /\ errc' = Tail(errc)
    /\ innerErr' = IF Head(errc) # "nil" THEN "ServerFailure" ELSE "Unexpected"
    /\ runErr' = innerErr'
    /\ ctxRun' = TRUE
    /\ rpc' = "returned"
    /\ UNCHANGED <<signalled, portOK, cbOK, regURL, regPosts, regOK, worker, workerEnd, cmdErr, srv, gpc,
                   shutdown, callbacks, srvFailedFirst, workerFirst>>

\* run, lines 388-391, and Run, lines 319-321: what follows the select.  An
\* error of the command is wrapped and returned by run and by Run; the
\* deferred cancel runs.
AfterSelect ==
    /\ ctxRun' = TRUE
    /\ IF cmdErr # "nil"
       THEN /\ innerErr' = "RunFailed"
            /\ runErr' = "RunFailed"
            /\ rpc' = "returned"
       ELSE /\ innerErr' = "nil"
            /\ rpc' = "callback"
            /\ UNCHANGED runErr

\* run, lines 382-383: case <-errc
RunSelectErrc ==
    /\ UNCHANGED <<bridgeVars, trashVars, tmuxVars, apiVars, cmdVars, wrapVars, lockVars, csvVars, pwVars, startVars>>
    /\ rpc = "select"
    /\ errc # <<>>
    /\ errc' = Tail(errc)
    /\ AfterSelect
    /\ UNCHANGED <<signalled, portOK, cbOK, regURL, regPosts, regOK, worker, workerEnd, cmdErr, srv, gpc,
                   shutdown, callbacks, srvFailedFirst, workerFirst>>

\* A plain receive from errc in place of the select with its timer.
RunSelectNoTimer == RunSelectErrc

\* run, lines 384-385: case <-time.After(time.Second*5)
RunSelectTimeout ==
    /\ UNCHANGED <<bridgeVars, trashVars, tmuxVars, apiVars, cmdVars, wrapVars, lockVars, csvVars, pwVars, startVars>>
    /\ rpc = "select"
    /\ AfterSelect
    /\ UNCHANGED <<signalled, portOK, cbOK, regURL, regPosts, regOK, worker, workerEnd, cmdErr, srv, gpc, errc,
                   shutdown, callbacks, srvFailedFirst, workerFirst>>

\* Run, lines 322-325, with Callback (lines 273-304): nothing is posted when
\* no URL is set; otherwise the status is posted and anything but a 200 is an error.
RunCallback ==
    /\ UNCHANGED <<bridgeVars, trashVars, tmuxVars, apiVars, cmdVars, wrapVars, lockVars, csvVars, pwVars, startVars>>
    /\ rpc = "callback"
    /\ IF ~regURL
       THEN runErr' = "nil" /\ UNCHANGED <<callbacks, cbOK>>
       ELSE \E o \in PostOutcomes :
               /\ callbacks' = Append(callbacks, CallbackStatus(innerErr))
               /\ cbOK' = (o = "200")
               /\ runErr' = IF o = "200" THEN "nil" ELSE "CallbackFailed"
    /\ rpc' = "returned"
    /\ UNCHANGED <<signalled, portOK, regURL, regPosts, regOK, worker, workerEnd, cmdErr, srv, gpc, errc,
                   ctxRun, shutdown, innerErr, srvFailedFirst, workerFirst>>

\* The server goroutine, lines 352-357: after Shutdown ListenAndServe returns
\* http.ErrServerClosed and nil is sent on the error channel.
SrvClosed ==
    /\ UNCHANGED <<bridgeVars, trashVars, tmuxVars, apiVars, cmdVars, wrapVars, lockVars, csvVars, pwVars, startVars>>
    /\ gpc = "listen"
    /\ shutdown
    /\ Len(errc) < 1
    /\ errc' = Append(errc, "nil")
    /\ srv' = "closed"
    /\ gpc' = "done"
    /\ UNCHANGED <<signalled, portOK, cbOK, rpc, regURL, regPosts, regOK, worker, workerEnd, cmdErr,
                   ctxRun, shutdown, callbacks, innerErr, runErr, srvFailedFirst,
                   workerFirst>>

\* The server goroutine, lines 352 and 358: ListenAndServe returns another error.
SrvFail ==
    /\ UNCHANGED <<bridgeVars, trashVars, tmuxVars, apiVars, cmdVars, wrapVars, lockVars, csvVars, pwVars, startVars>>
    /\ gpc = "listen"
    /\ ~shutdown
    /\ srv' = "failed"
    /\ gpc' = "cancel"
    /\ srvFailedFirst' = (worker = "running")
    /\ UNCHANGED <<signalled, portOK, cbOK, rpc, regURL, regPosts, regOK, worker, workerEnd, cmdErr, errc,
                   ctxRun, shutdown, callbacks, innerErr, runErr, workerFirst>>

\* The server goroutine, line 360: cancel()
SrvCancel ==
    /\ UNCHANGED <<bridgeVars, trashVars, tmuxVars, apiVars, cmdVars, wrapVars, lockVars, csvVars, pwVars, startVars>>
    /\ gpc = "cancel"
    /\ ctxRun' = TRUE
    /\ gpc' = "senderr"
    /\ UNCHANGED <<signalled, portOK, cbOK, rpc, regURL, regPosts, regOK, worker, workerEnd, cmdErr, srv, errc,
                   shutdown, callbacks, innerErr, runErr, srvFailedFirst, workerFirst>>

\* The server goroutine, line 361: errc <- err
SrvSendErr ==
    /\ UNCHANGED <<bridgeVars, trashVars, tmuxVars, apiVars, cmdVars, wrapVars, lockVars, csvVars, pwVars, startVars>>
    /\ gpc = "senderr"
    /\ Len(errc) < 1
    /\ errc' = Append(errc, "err")
    /\ gpc' = "sendnil"
    /\ UNCHANGED <<signalled, portOK, cbOK, rpc, regURL, regPosts, regOK, worker, workerEnd, cmdErr, srv,
                   ctxRun, shutdown, callbacks, innerErr, runErr, srvFailedFirst,
                   workerFirst>>

\* The server goroutine, line 363: errc <- nil, which follows line 361 too.
SrvSendNil ==
    /\ UNCHANGED <<bridgeVars, trashVars, tmuxVars, apiVars, cmdVars, wrapVars, lockVars, csvVars, pwVars, startVars>>
    /\ gpc = "sendnil"
    /\ Len(errc) < 1
    /\ errc' = Append(errc, "nil")
    /\ gpc' = "done"
    /\ UNCHANGED <<signalled, portOK, cbOK, rpc, regURL, regPosts, regOK, worker, workerEnd, cmdErr, srv,
                   ctxRun, shutdown, callbacks, innerErr, runErr, srvFailedFirst,
                   workerFirst>>

\* cmd/wrap.go, lines 122-128: SIGHUP or interrupt cancels the context of Run.
Signal ==
    /\ UNCHANGED <<bridgeVars, trashVars, tmuxVars, apiVars, cmdVars, wrapVars, lockVars, csvVars, pwVars, startVars>>
    /\ rpc \notin {"new", "returned"}
    /\ ~ctxRun
    /\ ctxRun' = TRUE
    /\ signalled' = TRUE
    /\ UNCHANGED <<portOK, cbOK, rpc, regURL, regPosts, regOK, worker, workerEnd, cmdErr, srv, gpc,
                   errc, shutdown, callbacks, innerErr, runErr, srvFailedFirst,
                   workerFirst>>

\* The steps of the goroutine that called Run.
Orchestrator ==
    \/ \E flag \in BOOLEAN, opened \in BOOLEAN : WrapPreRun(flag, opened)
    \/ WrapExit
    \/ RunNew
    \/ RunPort
    \/ RunRegister
    \/ RunOpen
    \/ RunSpawn
    \/ RunCmdStart
    \/ RunCmdWait
    \/ RunAfterCmd
    \/ RunRecvSrv
    \/ RunSelectErrc
    \/ RunSelectTimeout
    \/ RunCallback

NextRun ==
    \/ Orchestrator
    \/ WorkerExit
    \/ WorkerKilled
    \/ SrvClosed
    \/ SrvFail
    \/ SrvCancel
    \/ SrvSendErr
    \/ SrvSendNil
    \/ Signal

\* ====================================================================
\* Part 4: the terminal-multiplexer adapter, tmux/tmux.go
\* ====================================================================

\* The tmux tool is modelled by the sessions its server runs: `new -s` fails
\* on a name in use, `kill-session -t` fails on a name not in use.  A call of
\* the tool may also fail as a whole (tool missing, server unreachable, the
\* 100 ms deadline of line 31 passed); such a call has no effect.

\* Outcomes of running the tool.
ToolOutcomes == {"ok", "fail"}

\* uuid.New().String(), line 55: the model's UUIDs are one character long.
UUIDs == {"a", "b"}

\* The identifiers of the model: what NewSID yields, the test's "invalid-sid",
\* the prefix cut short, the prefix not at the start, and the empty string.
Names == {"pmux-a", "pmux-b", "invalid-sid", "pmux", "xpmux-a", ""}

\* The characters of a string.
Chars(s) ==
    CASE s = "pmux-a" -> <<"p", "m", "u", "x", "-", "a">>
      [] s = "pmux-b" -> <<"p", "m", "u", "x", "-", "b">>
      [] s = "invalid-sid" -> <<"i", "n", "v", "a", "l", "i", "d", "-", "s", "i", "d">>
      [] s = "pmux" -> <<"p", "m", "u", "x">>
      [] s = "xpmux-a" -> <<"x", "p", "m", "u", "x", "-", "a">>
      [] s = "" -> <<>>
      [] s = "pmux-" -> <<"p", "m", "u", "x", "-">>
      [] OTHER -> <<s>>

\* strings.HasPrefix(s, prefix)
HasPrefix(s, prefix) ==
    /\ Len(Chars(s)) >= Len(Chars(prefix))
    /\ SubSeq(Chars(s), 1, Len(Chars(prefix))) = Chars(prefix)

\* NewSID, lines 54-56: "pmux-" + uuid
NewSID(u) == CHOOSE s \in Names : Chars(s) = Chars("pmux-") \o Chars(u)

\* A validation that looks for the word without its dash.
validateSIDShortPrefix(s) == IF ~HasPrefix(s, "pmux") THEN "InvalidSID" ELSE "nil"

\* validateSID, lines 58-63: the error it returns.
validateSID(s) == IF ~HasPrefix(s, "pmux-") THEN "InvalidSID" ELSE "nil"

\* NewSession, lines 72-82, on the sessions S: the sessions it leaves, its
\* error, and whether the tool was run.
NewSessionOf(S, sid, tool) ==
    IF validateSID(sid) # "nil"
    THEN [sessions |-> S, err |-> "InvalidSID", invoked |-> FALSE]
    ELSE IF tool = "ok" /\ sid \notin S
         THEN [sessions |-> S \cup {sid}, err |-> "nil", invoked |-> TRUE]
         ELSE [sessions |-> S, err |-> "ToolFailed", invoked |-> TRUE]

\* KillSession, lines 86-95.
KillSessionOf(S, sid, tool) ==
    IF validateSID(sid) # "nil"
    THEN [sessions |-> S, err |-> "InvalidSID", invoked |-> FALSE]
    ELSE IF tool = "ok" /\ sid \in S
         THEN [sessions |-> S \ {sid}, err |-> "nil", invoked |-> TRUE]
         ELSE [sessions |-> S, err |-> "ToolFailed", invoked |-> TRUE]

\* A listing that keeps every line of the tool's output.
ListKeepsAll(sid) == TRUE

\* ListSessions, lines 115-120: a line is kept when the text before its
\* first colon passes validateSID (session names hold no colon).
ListKeeps(sid) == validateSID(sid) = "nil"

\* ListSessions, lines 100-127: the identifiers it returns and its error.
\* With no session the tmux server is not running and the tool fails.
ListSessionsOf(S, tool) ==
    IF tool # "ok" \/ S = {}
    THEN [list |-> {}, err |-> "ToolFailed"]
    ELSE [list |-> {n \in S : ListKeeps(n)}, err |-> "nil"]

\* A HasSession that is content with any listed session.
HasSessionIgnoresName(S, sid, tool) == ListSessionsOf(S, tool).list # {}

\* HasSession, lines 130-143.
HasSessionOf(S, sid, tool) ==
    LET r == ListSessionsOf(S, tool)
    IN  IF r.err # "nil" THEN FALSE ELSE sid \in r.list

ValidNames == {n \in Names : validateSID(n) = "nil"}

NoCall == [op |-> "none", sid |-> "", err |-> "nil", invoked |-> FALSE,
           pre |-> {}, list |-> {}, has |-> FALSE]

\* No request has been answered since the state last changed.
NoResponse == [op |-> "none", sid |-> "", keep |-> FALSE, status |-> 0, fail |-> "none",
               preFiles |-> <<>>, preDirs |-> {}, preSessions |-> {}]

InitTmux ==
    /\ sessions = {}
    /\ top = NoCall
    /\ phase = [n \in ValidNames |-> "none"]
    /\ ended = {}

\* A call of tmux.NewSession(sid, ...), as in TestHasSession line 21.
TmuxNewSession(sid, tool) ==
    /\ UNCHANGED <<bridgeVars, trashVars, runVars, apiVars, cmdVars, wrapVars, lockVars, csvVars, pwVars, startVars>>
    /\ LET r == NewSessionOf(sessions, sid, tool)
       IN  /\ sessions' = r.sessions
           /\ top' = [NoCall EXCEPT !.op = "new", !.sid = sid, !.err = r.err,
                                    !.invoked = r.invoked, !.pre = sessions]
           /\ IF r.err = "nil"
              THEN phase' = [phase EXCEPT ![sid] = "started"] /\ ended' = ended \ {sid}
              ELSE UNCHANGED <<phase, ended>>

\* A call of tmux.KillSession(sid), as in TestHasSession line 29.
TmuxKillSession(sid, tool) ==
    /\ UNCHANGED <<bridgeVars, trashVars, runVars, apiVars, cmdVars, wrapVars, lockVars, csvVars, pwVars, startVars>>
    /\ LET r == KillSessionOf(sessions, sid, tool)
       IN  /\ sessions' = r.sessions
           /\ top' = [NoCall EXCEPT !.op = "kill", !.sid = sid, !.err = r.err,
                                    !.invoked = r.invoked, !.pre = sessions]
           /\ IF sid \in ValidNames
              THEN phase' = [phase EXCEPT ![sid] =
                                IF r.err = "nil" THEN "killed"
                                ELSE IF @ = "started" THEN "killfailed" ELSE @]
              ELSE UNCHANGED phase
    /\ UNCHANGED ended

\* A call of tmux.ListSessions().
TmuxListSessions(tool) ==
    /\ UNCHANGED <<bridgeVars, trashVars, runVars, apiVars, cmdVars, wrapVars, lockVars, csvVars, pwVars, startVars>>
    /\ LET r == ListSessionsOf(sessions, tool)
       IN  top' = [NoCall EXCEPT !.op = "list", !.err = r.err, !.invoked = TRUE,
                                !.pre = sessions, !.list = r.list]
    /\ UNCHANGED <<sessions, phase, ended>>

\* A call of tmux.HasSession(sid), as in TestHasSession lines 17, 24 and 33.
TmuxHasSession(sid, tool) ==
    /\ UNCHANGED <<bridgeVars, trashVars, runVars, apiVars, cmdVars, wrapVars, lockVars, csvVars, pwVars, startVars>>
    /\ top' = [NoCall EXCEPT !.op = "has", !.sid = sid, !.invoked = TRUE,
                             !.err = ListSessionsOf(sessions, tool).err,
                             !.pre = sessions,
                             !.has = HasSessionOf(sessions, sid, tool)]
    /\ UNCHANGED <<sessions, phase, ended>>

\* The command of a session exits and tmux closes the session (the note of
\* lines 70-71: no guarantee that the session is still running).
SessionEnds(n) ==
    /\ UNCHANGED <<bridgeVars, trashVars, runVars, cmdVars, wrapVars, lockVars, csvVars, pwVars, startVars>>
    /\ resp' = NoResponse
    /\ UNCHANGED <<fsFiles, fsDirs, used, sidWritten>>
    /\ n \in sessions
    /\ sessions' = sessions \ {n}
    /\ ended' = IF n \in ValidNames THEN ended \cup {n} ELSE ended
    /\ top' = NoCall
    /\ UNCHANGED phase

\* Somebody else starts a session of their own on the same tmux server.
OtherSession(n) ==
    /\ UNCHANGED <<bridgeVars, trashVars, runVars, cmdVars, wrapVars, lockVars, csvVars, pwVars, startVars>>
    /\ resp' = NoResponse
    /\ UNCHANGED <<fsFiles, fsDirs, used, sidWritten>>
    /\ n \in Names \ ValidNames
    /\ n # ""
    /\ n \notin sessions
    /\ sessions' = sessions \cup {n}
    /\ top' = NoCall
    /\ UNCHANGED <<phase, ended>>

NextTmux ==
    \/ \E n \in Names, t \in ToolOutcomes : TmuxNewSession(n, t)
    \/ \E n \in Names, t \in ToolOutcomes : TmuxKillSession(n, t)
    \/ \E t \in ToolOutcomes : TmuxListSessions(t)
    \/ \E n \in Names, t \in ToolOutcomes : TmuxHasSession(n, t)
    \/ \E n \in Names : SessionEnds(n)
    \/ \E n \in Names : OtherSession(n)


\* ====================================================================
\* Part 5: the control plane, http/pmuxapi/handlers.go, on the session
\* directories below its root directory and the sessions of the adapter
\* ====================================================================

\* filepath.Join(p.rootDir, p.sid) for a wrapper with identifier sid, as a
\* path relative to the root directory.
WorkDirOf(sid) == IF sid = "" THEN <<>> ELSE <<sid>>

\* The canonical files of a directory.
CanonicalIn(dir) == {Append(dir, expected[i]) : i \in 1 .. Len(expected)}

\* A RootDir that calls os.Create on every canonical file, which truncates
\* the ones that are there.
CreateEvery(f, D, dir) ==
    [p \in DOMAIN f \cup (CanonicalIn(dir) \ D) |->
        IF p \in CanonicalIn(dir) THEN <<>> ELSE f[p]]

\* RootDir, lines 107-122, on files with content: each canonical file that
\* os.Stat does not find is created empty, the others are left alone.
CreateMissingIn(f, D, dir) ==
    [p \in DOMAIN f \cup (CanonicalIn(dir) \ D) |->
        IF p \in DOMAIN f THEN f[p] ELSE <<>>]

\* The option RootDir, lines 98-125, of a wrapper with identifier sid.
RootDirOf(f, D, sid) ==
    LET dir == WorkDirOf(sid)
    IN  IF MkdirAllFails(DOMAIN f, dir)
        THEN [files |-> f, dirs |-> D, err |-> "MkdirFailed"]
        ELSE [files |-> CreateMissingIn(f, MkdirAll(D, dir), dir),
              dirs |-> MkdirAll(D, dir), err |-> "nil"]

\* Writing content c to file p opened with os.O_RDWR|os.O_CREATE.
WriteAt(f, p, c) == [q \in DOMAIN f \cup {p} |-> IF q = p THEN c ELSE f[q]]

\* A StartSession that stores the name of the executable.
SidContentExecName(sid) == <<"wrap">>

\* StartSession, line 202: []byte(sid + "\n"), as a sequence of lines.
SidContent(sid) == <<sid>>

\* What json.NewEncoder(configFile).Encode(c.Config) writes, line 84.
ConfigContent == <<"json">>

\* trashFiles, lines 405-427, of a wrapper whose working directory is dir.
TrashFilesAt(f, D, dir) ==
    CHOOSE r \in {[files |-> [p \in (IF DirIsClean(w.found)
                                      THEN RemoveAllFrom(w.files, dir)
                                      ELSE w.files) |-> f[p]],
                   dirs |-> IF DirIsClean(w.found)
                            THEN RemoveAllFrom(w.dirs, dir)
                            ELSE w.dirs] : w \in {Walk(DOMAIN f, D, dir)}} : TRUE

\* A Trash that returns the error of tmux.KillSession.
TrashStopsOnKillError(f, D, S, sid, tool) ==
    LET k == KillSessionOf(S, sid, tool)
        t == TrashFilesAt(f, D, WorkDirOf(sid))
    IN  IF sid # "" /\ k.err # "nil"
        THEN [files |-> f, dirs |-> D, sessions |-> S]
        ELSE [files |-> t.files, dirs |-> t.dirs,
              sessions |-> IF sid # "" THEN k.sessions ELSE S]

\* Trash, lines 396-403: the session is killed, an error of the kill is
\* logged and dropped, and the files are trashed.
TrashOf(f, D, S, sid, tool) ==
    LET k == KillSessionOf(S, sid, tool)
        t == TrashFilesAt(f, D, WorkDirOf(sid))
    IN  [files |-> t.files, dirs |-> t.dirs,
         sessions |-> IF sid # "" THEN k.sessions ELSE S]

\* The identifiers whose written sid file is still there.
StillWritten(W, f) == {n \in W : Append(WorkDirOf(n), "sid") \in DOMAIN f}

\* Where a POST /api/v1/sessions can fail besides the tmux tool: in New
\* (line 72), opening the config file (77), encoding the configuration (84),
\* opening or writing the sid file (StartSession, lines 197-205), writing the
\* response (97).
CreateFailures == {"none", "new", "open", "encode", "sidopen", "sidwrite", "response"}

\* The identifiers a DELETE request may carry in the model.
DeleteNames == {"pmux-a", "invalid-sid", ""}

InitApi ==
    /\ fsFiles = <<>>
    /\ fsDirs = {}
    /\ used = {}
    /\ sidWritten = {}
    /\ resp = NoResponse

\* HandleCreate, lines 60-101, with New (pwrap.go 128-137), StartSession
\* (191-223) and Trash (396-403).
HandleCreate(u, fail, tool, killTool) ==
    /\ UNCHANGED <<bridgeVars, trashVars, runVars, cmdVars, wrapVars, lockVars, csvVars, pwVars, startVars>>
    /\ u \notin used
    /\ used' = used \cup {u}
    /\ \E sid \in {NewSID(u)} :
       \E r0 \in {RootDirOf(fsFiles, fsDirs, sid)} :
       \E cfg \in {WriteAt(r0.files, Append(WorkDirOf(sid), "config"), ConfigContent)} :
       \E sidw \in {WriteAt(cfg, Append(WorkDirOf(sid), "sid"), SidContent(sid))} :
       \E ns \in {NewSessionOf(sessions, sid, tool)} :
       \E at \in {IF fail = "new" \/ r0.err # "nil" THEN "new"
                  ELSE IF fail \in {"open", "encode", "sidopen", "sidwrite"} THEN fail
                  ELSE IF ns.err # "nil" THEN "tmux"
                  ELSE fail} :
          /\ resp' = [op |-> "create", sid |-> sid, keep |-> FALSE,
                      status |-> IF at = "none" THEN 200 ELSE 500, fail |-> at,
                      preFiles |-> fsFiles, preDirs |-> fsDirs, preSessions |-> sessions]
          /\ IF at = "new"
             THEN UNCHANGED <<fsFiles, fsDirs, sessions, sidWritten>>
             ELSE IF at = "none"
                  THEN /\ fsFiles' = sidw
                       /\ fsDirs' = r0.dirs
                       /\ sessions' = ns.sessions
                       /\ sidWritten' = sidWritten \cup {sid}
                  ELSE \E t \in {TrashOf(IF at \in {"open", "encode"} THEN r0.files
                                         ELSE IF at \in {"sidopen", "sidwrite"} THEN cfg
                                         ELSE sidw,
                                         r0.dirs,
                                         IF at = "response" THEN ns.sessions ELSE sessions,
                                         sid, killTool)} :
                          /\ fsFiles' = t.files
                          /\ fsDirs' = t.dirs
                          /\ sessions' = t.sessions
                          /\ sidWritten' =
                                StillWritten(sidWritten \cup (IF at \in {"tmux", "response"}
                                                              THEN {sid} ELSE {}),
                                             t.files)
    /\ UNCHANGED <<top, phase, ended>>

\* HandleDelete, lines 103-127, with New, KillSession (226-235) and Trash.
HandleDelete(sid, keepFiles, fail, tool) ==
    /\ UNCHANGED <<bridgeVars, trashVars, runVars, cmdVars, wrapVars, lockVars, csvVars, pwVars, startVars>>
    /\ \E r0 \in {RootDirOf(fsFiles, fsDirs, sid)} :
       \E k \in {KillSessionOf(sessions, sid, tool)} :
       \E at \in {IF sid = "" THEN "nosid"
                  ELSE IF fail = "new" \/ r0.err # "nil" THEN "new"
                  ELSE IF keepFiles /\ k.err # "nil" THEN "kill"
                  ELSE "none"} :
          /\ resp' = [op |-> "delete", sid |-> sid, keep |-> keepFiles,
                      status |-> IF at = "nosid" THEN 400
                                 ELSE IF at = "none" THEN 200 ELSE 500,
                      fail |-> at,
                      preFiles |-> fsFiles, preDirs |-> fsDirs, preSessions |-> sessions]
          /\ IF at \in {"nosid", "new"}
             THEN UNCHANGED <<fsFiles, fsDirs, sessions, sidWritten>>
             ELSE IF keepFiles
                  THEN /\ fsFiles' = r0.files
                       /\ fsDirs' = r0.dirs
                       /\ sessions' = k.sessions
                       /\ UNCHANGED sidWritten
                  ELSE \E t \in {TrashOf(r0.files, r0.dirs, sessions, sid, tool)} :
                          /\ fsFiles' = t.files
                          /\ fsDirs' = t.dirs
                          /\ sessions' = t.sessions
                          /\ sidWritten' = StillWritten(sidWritten, t.files)
    /\ UNCHANGED <<used, top, phase, ended>>

\* cmd/wrap.go, lines 129-137: pwrap.New(Exec, OverrideSID(sid), RootDir(rootDir),
\* Register(url)) of the wrap command, also TestNew.
WrapNew(sid, fail) ==
    /\ UNCHANGED <<bridgeVars, trashVars, runVars, cmdVars, wrapVars, lockVars, csvVars, pwVars, startVars>>
    /\ LET r0 == RootDirOf(fsFiles, fsDirs, sid)
           failed == fail = "new" \/ r0.err # "nil"
       IN  /\ resp' = [op |-> "new", sid |-> sid, keep |-> FALSE,
                       status |-> 0, fail |-> IF failed THEN "new" ELSE "none",
                       preFiles |-> fsFiles, preDirs |-> fsDirs, preSessions |-> sessions]
           /\ IF failed
              THEN UNCHANGED <<fsFiles, fsDirs>>
              ELSE fsFiles' = r0.files /\ fsDirs' = r0.dirs
    /\ UNCHANGED <<used, sidWritten, sessions, top, phase, ended>>

\* The worker of a running session leaves a file of its own in the session
\* directory (the "extra-file" of TestTrashFiles).
WorkerFile(sid) ==
    /\ UNCHANGED <<bridgeVars, trashVars, runVars, cmdVars, wrapVars, lockVars, csvVars, pwVars, startVars>>
    /\ sid \in sessions
    /\ WorkDirOf(sid) \in fsDirs
    /\ Append(WorkDirOf(sid), ForeignNames[1]) \notin DOMAIN fsFiles
    /\ fsFiles' = WriteAt(fsFiles, Append(WorkDirOf(sid), ForeignNames[1]), <<"data">>)
    /\ resp' = NoResponse
    /\ UNCHANGED <<fsDirs, used, sidWritten, sessions, top, phase, ended>>

NextApi ==
    \/ \E u \in UUIDs, fail \in CreateFailures, t \in ToolOutcomes, k \in ToolOutcomes :
          HandleCreate(u, fail, t, k)
    \/ \E sid \in DeleteNames, keepFiles \in BOOLEAN, fail \in {"none", "new"},
          t \in ToolOutcomes : HandleDelete(sid, keepFiles, fail, t)
    \/ \E sid \in DeleteNames \ {""}, fail \in {"none", "new"} : WrapNew(sid, fail)
    \/ \E sid \in DeleteNames : WorkerFile(sid)
    \/ \E n \in DeleteNames : SessionEnds(n)
    \/ \E n \in DeleteNames : OtherSession(n)


\* ====================================================================
\* Part 6: a connection to the rendezvous socket: POST /command, GET
\* /progress, and handleConn on the other side
\* ====================================================================

\* A string is a sequence of tokens.  NL is the newline; the two mode markers
\* and "cancel" are tokens of their own, "x" is any other text.
NL == "\n"
Tokens == {"x", "cancel", "mode=command", "mode=progress", NL}

\* The strings of at most n tokens.
RECURSIVE Strings(_)
Strings(n) ==
    IF n = 0 THEN {<<>>}
    ELSE LET S == Strings(n - 1) IN
         S \cup {Append(s, k) : s \in {x \in S : Len(x) = n - 1}, k \in Tokens}

Bodies == Strings(MaxBody)

\* What another local process may write to the socket: a header line of up to
\* MaxBody tokens and its newline, or less.
Wires == Strings(MaxBody + 1)

\* strings.Contains(s, marker), for a marker that is one token.
Contains(s, marker) == \E i \in 1 .. Len(s) : s[i] = marker

\* A request body written before the header.
CommandRequestBodyFirst(b) == b \o <<NL, "mode=command", NL>>

\* commandHandler, lines 98-107: the buffer starts with "mode=command\n", the
\* body is copied behind it, then "\n"; the buffer is copied to the socket.
CommandRequest(b) == <<"mode=command", NL>> \o b \o <<NL>>

\* progressStreamHandler, line 79: sock.Write([]byte("mode=progress\n"))
ProgressRequest == <<"mode=progress", NL>>

\* The position of the first newline of s (0: there is none).
FirstNL(s) ==
    IF Contains(s, NL) THEN CHOOSE i \in 1 .. Len(s) :
                               s[i] = NL /\ \A j \in 1 .. (i - 1) : s[j] # NL
    ELSE 0

\* bufio.Reader.ReadString('\n') on a connection whose peer wrote s and closed:
\* the line up to and including the first newline, or all of s and io.EOF.
ReadString(s) ==
    LET i == FirstNL(s) IN
    IF i = 0 THEN [line |-> s, rest |-> <<>>, err |-> "EOF"]
    ELSE [line |-> SubSeq(s, 1, i), rest |-> SubSeq(s, i + 1, Len(s)), err |-> "nil"]

\* strings.TrimRight(s, "\n")
RECURSIVE TrimRight(_)
TrimRight(s) ==
    IF s # <<>> /\ s[Len(s)] = NL THEN TrimRight(SubSeq(s, 1, Len(s) - 1)) ELSE s

\* handleConn, lines 150-161: the switch on the header.
ModeOf(header) ==
    IF Contains(header, "mode=command") THEN "command"
    ELSE IF Contains(header, "mode=progress") THEN "progress"
    ELSE "unknown"

\* A readCommand that reads the command line before it looks for the handler.
ReadCommandReadsFirst(w, h) ==
    LET r == ReadString(w) IN
    IF r.err # "nil" THEN [rest |-> r.rest, err |-> "ReadCommand", call |-> <<>>]
    ELSE IF ~h THEN [rest |-> r.rest, err |-> "NoCommandHandler", call |-> <<>>]
    ELSE [rest |-> r.rest, err |-> "nil", call |-> <<TrimRight(r.line)>>]

\* readCommand, lines 211-223, on a connection with w unread and a handler
\* set or not (h): without a handler nothing is read; else one line is read
\* and the handler is invoked with it, trailing newlines trimmed.  The result
\* tells what is left unread, the error returned, and the handler's calls.
ReadCommandOf(w, h) ==
    IF ~h THEN [rest |-> w, err |-> "NoCommandHandler", call |-> <<>>]
    ELSE LET r == ReadString(w) IN
         IF r.err # "nil" THEN [rest |-> r.rest, err |-> "ReadCommand", call |-> <<>>]
         ELSE [rest |-> r.rest, err |-> "nil", call |-> <<TrimRight(r.line)>>]

NoRequest == [by |-> "none", body |-> <<>>]

InitCmd ==
    /\ onCommand = FALSE
    /\ cpc = "new"
    /\ cwire = <<>>
    /\ csent = NoRequest
    /\ chdr = <<>>
    /\ handled = <<>>
    /\ cerr = ""
    /\ csubs = 0

\* NewUnixCommBridge, lines 55-66, with or without the OnCommand option
\* (lines 47-51).
CmdNewBridge(h) ==
    /\ UNCHANGED <<bridgeVars, trashVars, runVars, tmuxVars, apiVars, wrapVars, lockVars, csvVars, pwVars, startVars>>
    /\ cpc = "new"
    /\ onCommand' = h
    /\ cpc' = "listen"
    /\ UNCHANGED <<cwire, csent, chdr, handled, cerr, csubs>>

\* commandHandler, lines 86-112, with request body b: the socket is dialled,
\* the request is written to it, and the deferred sock.Close() runs.  When
\* the dial fails (lines 91-95) the answer is 500 and nothing is written.
PostCommand(b, dialled) ==
    /\ UNCHANGED <<bridgeVars, trashVars, runVars, tmuxVars, apiVars, wrapVars, lockVars, csvVars, pwVars, startVars>>
    /\ cpc = "listen"
    /\ IF dialled
       THEN /\ cwire' = CommandRequest(b)
            /\ csent' = [by |-> "command", body |-> b]
            /\ cpc' = "conn"
       ELSE /\ csent' = [by |-> "nodial", body |-> b]
            /\ UNCHANGED <<cwire, cpc>>
    /\ UNCHANGED <<onCommand, chdr, handled, cerr, csubs>>

\* progressStreamHandler, lines 72-84: the socket is dialled and the mode line
\* written; the connection then carries the stream to the HTTP client.
GetProgress ==
    /\ UNCHANGED <<bridgeVars, trashVars, runVars, tmuxVars, apiVars, wrapVars, lockVars, csvVars, pwVars, startVars>>
    /\ cpc = "listen"
    /\ cwire' = ProgressRequest
    /\ csent' = [by |-> "progress", body |-> <<>>]
    /\ cpc' = "conn"
    /\ UNCHANGED <<onCommand, chdr, handled, cerr, csubs>>

\* Another local process dials the socket, writes w and closes.
RawConnect(w) ==
    /\ UNCHANGED <<bridgeVars, trashVars, runVars, tmuxVars, apiVars, wrapVars, lockVars, csvVars, pwVars, startVars>>
    /\ cpc = "listen"
    /\ cwire' = w
    /\ csent' = [by |-> "raw", body |-> w]
    /\ cpc' = "conn"
    /\ UNCHANGED <<onCommand, chdr, handled, cerr, csubs>>

\* handleConn, lines 140-149: the header line is read; a read error is logged
\* and the deferred conn.Close() runs.
ConnReadHeader ==
    /\ UNCHANGED <<bridgeVars, trashVars, runVars, tmuxVars, apiVars, wrapVars, lockVars, csvVars, pwVars, startVars>>
    /\ cpc = "conn"
    /\ \E r \in {ReadString(cwire)} :
          /\ cwire' = r.rest
          /\ chdr' = r.line
          /\ IF r.err # "nil"
             THEN cerr' = "ReadHeader" /\ cpc' = "closed"
             ELSE cerr' = cerr /\ cpc' = "dispatch"
    /\ UNCHANGED <<onCommand, csent, handled, csubs>>

\* handleConn, lines 150-161: the switch on the header.  A header with
\* neither mode is an error: it is logged and the deferred conn.Close() runs.
\* With mode=progress writeUpdates starts and registers a subscriber (getTx).
ConnDispatch ==
    /\ UNCHANGED <<bridgeVars, trashVars, runVars, tmuxVars, apiVars, wrapVars, lockVars, csvVars, pwVars, startVars>>
    /\ cpc = "dispatch"
    /\ \E m \in {ModeOf(chdr)} :
          /\ cpc' = IF m = "command" THEN "readcmd"
                    ELSE IF m = "progress" THEN "streaming"
                    ELSE "closed"
          /\ cerr' = IF m = "unknown" THEN "UnrecognisedMode" ELSE cerr
          /\ csubs' = IF m = "progress" THEN csubs + 1 ELSE csubs
    /\ UNCHANGED <<onCommand, cwire, csent, chdr, handled>>

\* handleConn, lines 151-154: readCommand runs; its error, if any, is logged;
\* handleConn returns and the deferred conn.Close() runs.
ConnReadCommand ==
    /\ UNCHANGED <<bridgeVars, trashVars, runVars, tmuxVars, apiVars, wrapVars, lockVars, csvVars, pwVars, startVars>>
    /\ cpc = "readcmd"
    /\ \E r \in {ReadCommandOf(cwire, onCommand)} :
          /\ cwire' = r.rest
          /\ cerr' = IF r.err # "nil" THEN r.err ELSE cerr
          /\ handled' = handled \o r.call
    /\ cpc' = "closed"
    /\ UNCHANGED <<onCommand, csent, chdr, csubs>>

\* writeUpdates, lines 193-209, returns (the peer is gone, or the context is
\* cancelled): tx.close, and the deferred conn.Close() of handleConn.
ConnStreamEnds ==
    /\ UNCHANGED <<bridgeVars, trashVars, runVars, tmuxVars, apiVars, wrapVars, lockVars, csvVars, pwVars, startVars>>
    /\ cpc = "streaming"
    /\ cpc' = "closed"
    /\ UNCHANGED <<onCommand, cwire, csent, chdr, handled, cerr, csubs>>

NextCmd ==
    \/ \E h \in BOOLEAN : CmdNewBridge(h)
    \/ \E b \in Bodies, dialled \in BOOLEAN : PostCommand(b, dialled)
    \/ GetProgress
    \/ \E w \in Wires : RawConnect(w)
    \/ ConnReadHeader
    \/ ConnDispatch
    \/ ConnReadCommand
    \/ ConnStreamEnds


\* ====================================================================
\* Part 7: the mutexes of the bridge: Write, getTx and tx.close statement
\* by statement
\* ====================================================================

\* The goroutines: the producer (it calls Write again and again) and one per
\* subscriber (handleConn -> writeUpdates).
Producer == 0
Goroutines == {Producer} \cup Subs
Free == 0 - 1

\* The statements that matter: b.<mu>.Lock(), b.<mu>.Unlock(), a statement
\* that reads or writes the field the mutex mu guards (last.u, clients.m), and
\* a statement that touches neither.
LockOf(mu) == [op |-> "lock", mu |-> mu]
UnlockOf(mu) == [op |-> "unlock", mu |-> mu]
Use(mu) == [op |-> "use", mu |-> mu]
Other == [op |-> "other", mu |-> "none"]

\* A Write that stores last after it released the last mutex.
WriteCodeStoreUnlocked ==
    << Other, LockOf("last"), UnlockOf("last"), Use("last"),
       LockOf("clients"), Use("clients"), Use("clients"), UnlockOf("clients") >>

\* Write, lines 119-133.
WriteCode ==
    << Other,               \* 120: s := string(p)
       LockOf("last"),      \* 122
       Use("last"),         \* 123: b.last.u = &s
       UnlockOf("last"),    \* 124
       LockOf("clients"),   \* 126
       Use("clients"),      \* 128-130: range b.clients.m, v <- s
       Use("clients"),      \* 131: len(b.clients.m)
       UnlockOf("clients")  \* 127: the deferred Unlock
    >>

\* getTx, lines 164-181.
GetTxCode ==
    << Other,               \* 165: make(chan string, 1)
       LockOf("last"),      \* 167
       Use("last"),         \* 169-172: the key; b.last.u is read and sent to c
       UnlockOf("last"),    \* 173
       LockOf("clients"),   \* 175
       Use("clients"),      \* 176-179: b.clients.m[key] = c
       UnlockOf("clients")  \* 180
    >>

\* tx.close, lines 184-189.
CloseCode ==
    << Other,               \* 185: close(c)
       LockOf("clients"),   \* 186
       Use("clients"),      \* 187: delete(b.clients.m, key)
       UnlockOf("clients")  \* 188
    >>

\* writeUpdates, lines 193-209: getTx, the select loop, and the deferred
\* c.close().
WriteUpdatesCode == GetTxCode \o <<Other>> \o CloseCode

CodeOf(g) == IF g = Producer THEN WriteCode ELSE WriteUpdatesCode

\* The statement goroutine g executes next (Other when it has returned).
NextStmt(g) == IF lpc[g] <= Len(CodeOf(g)) THEN CodeOf(g)[lpc[g]] ELSE Other

\* After its last statement the producer calls Write again; a subscriber
\* goroutine returns.
Advance(g) ==
    IF g = Producer /\ lpc[g] = Len(CodeOf(g)) THEN 1 ELSE lpc[g] + 1

NoAccess == [who |-> Free, mu |-> "none"]

InitLocks ==
    /\ holder = [m \in {"last", "clients"} |-> Free]
    /\ lpc = [g \in Goroutines |-> 1]
    /\ acc = NoAccess

\* sync.Mutex.Lock: the goroutine waits until the mutex is free and takes it.
GoLock(g) ==
    /\ UNCHANGED <<bridgeVars, trashVars, runVars, tmuxVars, apiVars, cmdVars, wrapVars, csvVars, pwVars, startVars>>
    /\ lpc[g] <= Len(CodeOf(g))
    /\ NextStmt(g).op = "lock"
    /\ holder[NextStmt(g).mu] = Free
    /\ holder' = [holder EXCEPT ![NextStmt(g).mu] = g]
    /\ lpc' = [lpc EXCEPT ![g] = Advance(g)]
    /\ acc' = NoAccess

\* sync.Mutex.Unlock
GoUnlock(g) ==
    /\ UNCHANGED <<bridgeVars, trashVars, runVars, tmuxVars, apiVars, cmdVars, wrapVars, csvVars, pwVars, startVars>>
    /\ lpc[g] <= Len(CodeOf(g))
    /\ NextStmt(g).op = "unlock"
    /\ holder' = [holder EXCEPT ![NextStmt(g).mu] = Free]
    /\ lpc' = [lpc EXCEPT ![g] = Advance(g)]
    /\ acc' = NoAccess

\* A statement that reads or writes last.u or clients.m.
GoUse(g) ==
    /\ UNCHANGED <<bridgeVars, trashVars, runVars, tmuxVars, apiVars, cmdVars, wrapVars, csvVars, pwVars, startVars>>
    /\ lpc[g] <= Len(CodeOf(g))
    /\ NextStmt(g).op = "use"
    /\ acc' = [who |-> g, mu |-> NextStmt(g).mu]
    /\ lpc' = [lpc EXCEPT ![g] = Advance(g)]
    /\ UNCHANGED holder

\* A statement that touches neither field.
GoOther(g) ==
    /\ UNCHANGED <<bridgeVars, trashVars, runVars, tmuxVars, apiVars, cmdVars, wrapVars, csvVars, pwVars, startVars>>
    /\ lpc[g] <= Len(CodeOf(g))
    /\ NextStmt(g).op = "other"
    /\ acc' = NoAccess
    /\ lpc' = [lpc EXCEPT ![g] = Advance(g)]
    /\ UNCHANGED holder

NextLocks ==
    \/ \E g \in Goroutines : GoLock(g)
    \/ \E g \in Goroutines : GoUnlock(g)
    \/ \E g \in Goroutines : GoUse(g)
    \/ \E g \in Goroutines : GoOther(g)


\* ====================================================================
\* Part 8: the CSV helper of the bridge, WriteProgressUpdate
\* ====================================================================

\* Text is a sequence of tokens: "x" is any plain text, Comma, NL and Quote
\* are the characters encoding/csv treats specially; a digit, "-" and each
\* column name are plain tokens.
Comma == ","
Quote == "\""

\* The descriptions a producer passes: plain text, and one holding every
\* special character.
Descs == {<<"x">>, <<"x", Comma, Quote, NL>>}

Digits == <<"0", "1", "2", "3">>

\* strconv.Itoa, for the integers the model passes (-1 .. 3)
Itoa(n) == IF n < 0 THEN <<"-", Digits[(0 - n) + 1]>> ELSE <<Digits[n + 1]>>

\* line 97
Header == << <<"STAGES">>, <<"STAGE">>, <<"TOTAL">>, <<"PARTIAL">>, <<"DESCRIPTION">> >>

\* lines 103-109: the record of a call.  The producer of the model passes
\* what the mock worker passes: -1, -1, -1, the number of the call, and d.
RecordOf(c) == << Itoa(0 - 1), Itoa(0 - 1), Itoa(0 - 1), Itoa(c.partial), c.d >>

\* csv.Writer.fieldNeedsQuotes
FieldNeedsQuotes(f) ==
    f # <<>> /\ \E i \in 1 .. Len(f) : f[i] \in {Comma, Quote, NL}

\* csv.Writer.Write, the loop over a quoted field: a quote is doubled.
RECURSIVE EscapeQuotes(_)
EscapeQuotes(f) ==
    IF f = <<>> THEN <<>>
    ELSE (IF Head(f) = Quote THEN <<Quote, Quote>> ELSE <<Head(f)>>) \o EscapeQuotes(Tail(f))

EncodeField(f) ==
    IF FieldNeedsQuotes(f) THEN <<Quote>> \o EscapeQuotes(f) \o <<Quote>> ELSE f

\* csv.Writer.Write: the fields separated by commas, then a newline.
RECURSIVE EncodeFields(_)
EncodeFields(r) ==
    IF Len(r) = 1 THEN EncodeField(r[1])
    ELSE EncodeField(Head(r)) \o <<Comma>> \o EncodeFields(Tail(r))

EncodeRecord(r) == EncodeFields(r) \o <<NL>>

\* A helper that writes the header in every call.
HeaderRowsAlways(wrote) == EncodeRecord(Header)

\* lines 96-102: the header is written to the csv writer unless a call
\* before this one has written it.
HeaderRows(wrote) == IF ~wrote THEN EncodeRecord(Header) ELSE <<>>

\* lines 95-112: what the csv writer has buffered when Flush hands it to
\* b.Write: the header rows, if any, and the record.
CsvOutput(wrote, c) == HeaderRows(wrote) \o EncodeRecord(RecordOf(c))

InitCsv ==
    /\ wroteCSVHeader = FALSE
    /\ payloads = <<>>
    /\ calls = <<>>

\* WriteProgressUpdate, lines 94-115, called by the producer with description
\* d: the rows are encoded into the csv writer, wroteCSVHeader is set, and
\* Flush makes one call of Write with them (lines 120-124 here; the fan-out
\* of that Write is WriteLock .. WriteReturn, and the helper returns with it).
WriteProgressUpdate(d) ==
    /\ ProcessAlive
    /\ UNCHANGED <<trashVars, runVars, tmuxVars, apiVars, cmdVars, wrapVars, lockVars, pwVars, startVars>>
    /\ UNCHANGED openVars
    /\ wpc = "idle"
    /\ nwritten < MaxWrites
    /\ \E c \in {[partial |-> nwritten, d |-> d]} :
          /\ calls' = Append(calls, c)
          /\ payloads' = Append(payloads, CsvOutput(wroteCSVHeader, c))
    /\ wroteCSVHeader' = TRUE
    /\ nwritten' = nwritten + 1
    /\ last' = StoreLast(last, nwritten + 1)
    /\ wpc' = "lock"
    /\ UNCHANGED <<clients, clientsLock, chan, closed, spc, skey, firstRecv, lastRecv, disorder, subStart,
                   wtodo, wcur, ndone, clock, ctxDone, panicked>>

\* The open bridge, its context live, with a producer that writes through
\* the helper.
NextCsv ==
    \/ \E d \in Descs : WriteProgressUpdate(d)
    \/ WriteLock
    \/ WriteNext
    \/ WriteSend
    \/ WriteReturn
    \/ \E s \in Subs : SubAccept(s)
    \/ \E s \in Subs : SubGetTx(s)
    \/ \E s \in Subs : SubRegister(s)
    \/ \E s \in Subs : SubRecv(s)
    \/ \E s \in Subs : SubWriteOk(s)
    \/ \E s \in Subs : SubWriteErr(s)
    \/ \E s \in Subs : SubStall(s)
    \/ \E s \in Subs : SubClose(s)
    \/ \E s \in Subs : SubUnregister(s)


\* ====================================================================
\* Part 9: one wrapper object and the calls of its methods, next to the
\* sessions other wrappers made below the same root directory
\* ====================================================================

NoOp == [op |-> "none", err |-> "nil"]

InitPw ==
    /\ pwOwn = ""
    /\ pwSid = ""
    /\ pwOp = NoOp

\* New(RootDir(root)), lines 128-137 and 98-125: the wrapper gets a new
\* identifier and its directory is materialized.
PwNew(u) ==
    /\ UNCHANGED <<bridgeVars, trashVars, runVars, cmdVars, wrapVars, lockVars, csvVars, startVars>>
    /\ pwOwn = ""
    /\ u \notin used
    /\ used' = used \cup {u}
    /\ \E r0 \in {RootDirOf(fsFiles, fsDirs, NewSID(u))} :
          /\ r0.err = "nil"
          /\ fsFiles' = r0.files
          /\ fsDirs' = r0.dirs
    /\ pwOwn' = NewSID(u)
    /\ pwSid' = NewSID(u)
    /\ pwOp' = [op |-> "new", err |-> "nil"]
    /\ resp' = NoResponse
    /\ UNCHANGED <<sidWritten, sessions, top, phase, ended>>

\* StartSession, lines 191-223: without an identifier an error; else the sid
\* file is opened (created if missing, which fails without the directory) and
\* written, and the tmux session is started.
PwStartSession(tool) ==
    /\ UNCHANGED <<bridgeVars, trashVars, runVars, cmdVars, wrapVars, lockVars, csvVars, startVars>>
    /\ pwOwn # ""
    /\ IF pwSid = ""
       THEN /\ pwOp' = [op |-> "start", err |-> "NoSID"]
            /\ UNCHANGED <<fsFiles, sessions, sidWritten>>
       ELSE IF WorkDirOf(pwSid) \notin fsDirs
       THEN /\ pwOp' = [op |-> "start", err |-> "OpenFailed"]
            /\ UNCHANGED <<fsFiles, sessions, sidWritten>>
       ELSE \E ns \in {NewSessionOf(sessions, pwSid, tool)} :
               /\ fsFiles' = WriteAt(fsFiles, Append(WorkDirOf(pwSid), "sid"), SidContent(pwSid))
               /\ sessions' = ns.sessions
               /\ sidWritten' = sidWritten \cup {pwSid}
               /\ pwOp' = [op |-> "start", err |-> ns.err]
    /\ resp' = NoResponse
    /\ UNCHANGED <<pwOwn, pwSid, fsDirs, used, top, phase, ended>>

\* KillSession, lines 226-235: without an identifier an error; else the
\* session is killed and, when that succeeded, p.sid is cleared.
PwKillSession(tool) ==
    /\ UNCHANGED <<bridgeVars, trashVars, runVars, cmdVars, wrapVars, lockVars, csvVars, startVars>>
    /\ pwOwn # ""
    /\ IF pwSid = ""
       THEN /\ pwOp' = [op |-> "kill", err |-> "NoSID"]
            /\ UNCHANGED <<sessions, pwSid>>
       ELSE \E k \in {KillSessionOf(sessions, pwSid, tool)} :
               /\ sessions' = k.sessions
               /\ pwSid' = IF k.err = "nil" THEN "" ELSE pwSid
               /\ pwOp' = [op |-> "kill", err |-> k.err]
    /\ resp' = NoResponse
    /\ UNCHANGED <<pwOwn, fsFiles, fsDirs, used, sidWritten, top, phase, ended>>

\* Trash, lines 396-403, with trashFiles (405-427) on WorkDir(), which is
\* filepath.Join(p.rootDir, p.sid) with the identifier the wrapper has now.
PwTrash(tool) ==
    /\ UNCHANGED <<bridgeVars, trashVars, runVars, cmdVars, wrapVars, lockVars, csvVars, startVars>>
    /\ pwOwn # ""
    /\ \E t \in {TrashOf(fsFiles, fsDirs, sessions, pwSid, tool)} :
          /\ fsFiles' = t.files
          /\ fsDirs' = t.dirs
          /\ sessions' = t.sessions
          /\ sidWritten' = StillWritten(sidWritten, t.files)
    /\ pwOp' = [op |-> "trash", err |-> "nil"]
    /\ resp' = NoResponse
    /\ UNCHANGED <<pwOwn, pwSid, used, top, phase, ended>>

\* The wrapper's methods in any order, and POST /api/v1/sessions requests
\* that make the other sessions.
NextWrapper ==
    \/ \E u \in UUIDs : PwNew(u)
    \/ \E t \in ToolOutcomes : PwStartSession(t)
    \/ \E t \in ToolOutcomes : PwKillSession(t)
    \/ \E t \in ToolOutcomes : PwTrash(t)
    \/ \E u \in UUIDs, fail \in CreateFailures, t \in ToolOutcomes, k \in ToolOutcomes :
          HandleCreate(u, fail, t, k)


\* ====================================================================
\* Part 10: the start-up of the wrap process that tmux launched for a
\* session (cmd/wrap.go, Run), next to the requests of the control plane
\* ====================================================================

\* The identifiers of the sessions POST /api/v1/sessions makes.
Launched == {NewSID(u) : u \in UUIDs}

InitStart == wproc = [n \in Launched |-> "none"]

\* wrap, Run, lines 116-127: the process tmux launched in the session (it
\* lives while the session does, until it handles the signal) makes its
\* context and has SIGHUP and interrupt delivered to a channel: from here on
\* the SIGHUP that tmux sends when the session is killed cancels the context
\* and does not end the process.
WrapNotify(sid) ==
    /\ UNCHANGED <<bridgeVars, trashVars, runVars, tmuxVars, apiVars, cmdVars, wrapVars, lockVars, csvVars, pwVars>>
    /\ wproc[sid] = "none"
    /\ sid \in sessions
    /\ wproc' = [wproc EXCEPT ![sid] = "notified"]

\* wrap, Run, lines 129-137: pwrap.New(Exec, OverrideSID(sid), RootDir(rootDir),
\* Register(url)); an error ends the process (log.Fatal).
WrapApplyNew(sid, fail) ==
    /\ UNCHANGED <<bridgeVars, trashVars, runVars, cmdVars, wrapVars, lockVars, csvVars, pwVars>>
    /\ wproc[sid] = "notified"
    /\ \E r0 \in {RootDirOf(fsFiles, fsDirs, sid)} :
          IF fail = "new" \/ r0.err # "nil"
          THEN /\ wproc' = [wproc EXCEPT ![sid] = "fatal"]
               /\ UNCHANGED <<fsFiles, fsDirs>>
          ELSE /\ wproc' = [wproc EXCEPT ![sid] = "made"]
               /\ fsFiles' = r0.files
               /\ fsDirs' = r0.dirs
    /\ UNCHANGED <<used, sidWritten, resp, sessions, top, phase, ended>>

\* Sessions are created and deleted (kill session, then trash files) while
\* their wrap processes start.
NextStart ==
    \/ \E u \in UUIDs, fail \in CreateFailures, t \in ToolOutcomes, k \in ToolOutcomes :
          HandleCreate(u, fail, t, k)
    \/ \E sid \in DeleteNames, fail \in {"none", "new"}, t \in ToolOutcomes :
          HandleDelete(sid, FALSE, fail, t)
    \/ \E sid \in Launched : WrapNotify(sid)
    \/ \E sid \in Launched, fail \in {"none", "new"} : WrapApplyNew(sid, fail)


\* ====================================================================
\* Specifications
\* ====================================================================

Init == InitBridge /\ InitTrash /\ InitRun /\ InitTmux /\ InitApi /\ InitCmd /\ InitLocks
        /\ InitCsv /\ InitPw /\ InitStart

SpecBridge == Init /\ [][NextBridge]_vars

\* Every goroutine of the bridge's process that can take a step eventually
\* takes one (the Go scheduler).  A subscriber blocked in a connection write
\* (SubStall) has no step to take.
FairBridge == SpecBridge /\ WF_vars(NextBridge)

\* The open bridge, with the same scheduling assumption.
FairOpen == Init /\ [][NextOpen]_vars /\ WF_vars(NextOpen)

\* The bridge inside the mock worker, with the same scheduling assumption.
FairMock == Init /\ [][NextMock]_vars /\ WF_vars(NextMock)

SpecTrash == Init /\ [][NextTrash]_vars

SpecRun == Init /\ [][NextRun]_vars

SpecTmux == Init /\ [][NextTmux]_vars

SpecApi == Init /\ [][NextApi]_vars

SpecCmd == Init /\ [][NextCmd]_vars

SpecLocks == Init /\ [][NextLocks]_vars

SpecCsv == Init /\ [][NextCsv]_vars

SpecWrapper == Init /\ [][NextWrapper]_vars

SpecStart == Init /\ [][NextStart]_vars

\* The goroutine that called Run eventually takes each step it can take; an
\* HTTP POST it makes ends with a response or an error.  Nothing is assumed
\* of the server goroutine, the worker or signals.
FairRun == SpecRun /\ WF_vars(Orchestrator)

\* As FairRun, and: the operating system ends a process that was sent the
\* kill signal, and the server goroutine takes the steps it can take.
\* ListenAndServe is not assumed to return unless the server is shut down.
FairSignal ==
    /\ FairRun
    /\ WF_vars(WorkerKilled)
    /\ WF_vars(SrvClosed \/ SrvCancel \/ SrvSendErr \/ SrvSendNil)


\* ====================================================================
\* Claims
\* ====================================================================

\* ---- C1 (the code blocks: see SubStall and WriteSend)
\* C1: a slow subscriber must not block the producer: every call of Write
\* eventually returns, also with a subscriber that has stopped draining its
\* channel.  A crash of the process (C4) is not counted against the claim
\* here, so that what refutes it is the stall itself.  Checked under FairBridge.
C1_WriteEventuallyReturns == (wpc # "idle") ~> (wpc = "idle" \/ panicked)

\* ---- C2
\* C2: the payloads a subscriber receives from its channel have strictly
\* increasing indices: none is out of order, none is delivered twice.
C2_StrictlyIncreasing == \A s \in Subs : ~disorder[s]

\* ---- C3
\* C3: a subscriber whose getTx starts after Write(p_i) has returned observes
\* as its first payload some p_j with j >= i.
C3_FirstNotOlder ==
    \A s \in Subs : firstRecv[s] # 0 => firstRecv[s] >= subStart[s]

\* A subscriber that subscribed after a Write had returned has received its
\* first payload.
C3_Witness == \E s \in Subs : subStart[s] >= 1 /\ firstRecv[s] >= 1

\* ---- C4
\* C4: closing one subscriber does not disturb the other: once a subscriber
\* has unsubscribed, at any point relative to a Write, the producer keeps
\* running.
C4_ProducerSurvivesUnsubscribe == (\E s \in Subs : closed[s]) => ~panicked

\* ---- C5
\* The entries strictly below the session directory in a set of paths.
Below(S) == {p \in S : IsPrefix(WorkDir, p) /\ p # WorkDir}

\* C5: trashFiles removes the session directory only if nothing foreign was
\* in it, and removes no entry whose basename is not a canonical name.
C5_TrashKeepsForeign ==
    tdone =>
        /\ (WorkDir \in preDirs /\ WorkDir \notin dirs) =>
               \A p \in Below(preFiles \cup preDirs) : Base(p) \in Canonical
        /\ \A p \in Below(preFiles \cup preDirs) :
               p \notin files \cup dirs => Base(p) \in Canonical

\* ---- C6
\* C6: trashFiles on a freshly materialized directory removes the directory;
\* on a freshly materialized directory plus one extra file it removes every
\* canonical file and keeps the directory and the extra file.
C6_TrashFreshDirectory ==
    tdone =>
        /\ fresh = "new" => WorkDir \notin dirs
        /\ fresh = "new+extra" =>
               /\ WorkDir \in dirs
               /\ \A p \in preFiles : Base(p) \in Foreign => p \in files
               /\ \A c \in Canonical : ~Exists(files, dirs, Append(WorkDir, c))

\* trashFiles has returned on a fresh directory with one extra file, having
\* counted the directory, the canonical files and the extra file.
C6_Witness == tdone /\ fresh = "new+extra" /\ found = Len(expected) + 2

\* ---- C7
\* C7: with a registration URL set and the registration accepted, every
\* completion of a run whose worker was launched (it succeeded, it failed, or
\* the server failed) is followed, before Run returns, by exactly one callback
\* POST, with status "success" when run returned nil and "error" otherwise.
C7_CallbackAfterEveryRun ==
    (rpc = "returned" /\ regURL /\ regOK /\ worker = "exited") =>
        callbacks = <<IF innerErr = "nil" THEN "success" ELSE "error">>

\* ---- C8
\* C8: when the registration POST does not return 200, Run returns an error,
\* the worker is never launched, the server never started, no callback posted.
C8_RegistrationFailureStopsRun ==
    (regURL /\ regPosts > 0 /\ ~regOK) =>
        /\ rpc = "returned"
        /\ runErr = "RegistrationFailed"
        /\ worker = "none"
        /\ srv = "none"
        /\ gpc = "none"
        /\ callbacks = <<>>

\* Run has returned after a registration POST that was not answered with 200.
C8_Witness == regURL /\ regPosts = 1 /\ ~regOK /\ rpc = "returned"

\* ---- C9
\* C9: if the worker exits first, Shutdown of the server is invoked and Run
\* eventually returns, whether or not the server goroutine ever reports on
\* the error channel.  Checked under FairRun.
C9_WorkerFirstRunReturns == workerFirst ~> (rpc = "returned" /\ shutdown)

\* Run has returned after the worker exited first, and the server goroutine
\* has not reported.
C9_Witness == workerFirst /\ rpc = "returned" /\ shutdown /\ gpc = "listen"

\* ---- C10
\* C10: if the server fails while the worker is running, the context is
\* cancelled, the worker is terminated, and Run returns an error that reports
\* the server failure; no success callback is posted.  Stated for the runs in
\* which the cancellation is what ended the worker.
C10_ServerFailureReported ==
    (rpc = "returned" /\ srvFailedFirst /\ workerEnd = "killed") =>
        /\ ctxRun
        /\ worker = "exited"
        /\ runErr = "ServerFailure"
        /\ \A i \in DOMAIN callbacks : callbacks[i] # "success"

\* --------------------------------------------------------------------
\* C11: once a SIGHUP or interrupt was delivered while Run was in progress,
\* the worker does not keep running and Run eventually returns.
C11_SignalEndsRun == signalled ~> (rpc = "returned" /\ worker # "running")

\* --------------------------------------------------------------------
\* C12: Run returns nil exactly when the port allocation, the registration
\* (if a URL is set), the worker (exit status zero) and the callback (if a
\* URL is set) all succeeded; a worker that exits with an error makes Run
\* return the wrapped exit error.
C12_RunResult ==
    rpc = "returned" =>
        /\ (runErr = "nil") <=>
               /\ portOK
               /\ regURL => regOK
               /\ workerEnd = "ok"
               /\ regURL => cbOK
        /\ workerEnd = "fail" => runErr = "RunFailed"

\* Run has returned nil after a registered, successful run.
C12_Witness == rpc = "returned" /\ runErr = "nil" /\ regURL /\ cbOK /\ workerEnd = "ok"

\* --------------------------------------------------------------------
\* C13: validateSID passes every identifier NewSID yields and rejects every
\* string that does not start with "pmux-"; for such a string NewSession and
\* KillSession return an error, do not run the tool and leave the sessions
\* as they were; ListSessions returns no identifier without the prefix.
StartsWithPmux(n) ==
    /\ Len(Chars(n)) >= 5
    /\ SubSeq(Chars(n), 1, 5) = <<"p", "m", "u", "x", "-">>

C13_ForeignSessionsUntouched ==
    /\ \A u \in UUIDs : validateSID(NewSID(u)) = "nil"
    /\ \A n \in Names : ~StartsWithPmux(n) => validateSID(n) # "nil"
    /\ (top.op \in {"new", "kill"} /\ ~StartsWithPmux(top.sid)) =>
           top.err # "nil" /\ ~top.invoked /\ sessions = top.pre
    /\ top.op = "list" => \A n \in top.list : StartsWithPmux(n)

\* KillSession has refused an identifier under which somebody else runs a session.
C13_Witness ==
    /\ top.op = "kill"
    /\ ~StartsWithPmux(top.sid)
    /\ top.sid \in sessions
    /\ top.err = "InvalidSID"

\* --------------------------------------------------------------------
\* C14 (as stated): for a valid identifier HasSession is false before
\* NewSession, true after a NewSession that succeeded and before any kill,
\* and false after a KillSession that succeeded.
C14_HasSessionFollowsCalls ==
    (top.op = "has" /\ top.sid \in ValidNames) =>
        /\ phase[top.sid] = "none" => ~top.has
        /\ phase[top.sid] = "started" => top.has
        /\ phase[top.sid] = "killed" => ~top.has

\* C14 (amended): the same, but after a NewSession that succeeded HasSession
\* is true only as long as the session's command has not exited and the
\* listing of the sessions succeeds.
C14_HasSessionWhileRunning ==
    (top.op = "has" /\ top.sid \in ValidNames) =>
        /\ phase[top.sid] = "none" => ~top.has
        /\ (phase[top.sid] = "started" /\ top.sid \notin ended /\ top.err = "nil")
              => top.has
        /\ phase[top.sid] = "killed" => ~top.has

\* HasSession has answered for a session that was killed while another runs.
C14_Witness ==
    /\ top.op = "has"
    /\ top.sid \in ValidNames
    /\ phase[top.sid] = "killed"
    /\ top.err = "nil"
    /\ \E n \in ValidNames : phase[n] = "started" /\ n \in sessions

\* --------------------------------------------------------------------
\* C15: after New(OverrideSID(s), RootDir(r)) succeeded the directory r/s
\* exists and holds each canonical file; a file that was absent is empty, a
\* file that was there has the content it had, and applying RootDir again
\* changes nothing.
C15_RootDirMaterializes ==
    (resp.op = "new" /\ resp.fail = "none") =>
        /\ WorkDirOf(resp.sid) \in fsDirs
        /\ \A p \in CanonicalIn(WorkDirOf(resp.sid)) :
              /\ p \in DOMAIN fsFiles
              /\ fsFiles[p] = IF p \in DOMAIN resp.preFiles THEN resp.preFiles[p] ELSE <<>>
        /\ RootDirOf(fsFiles, fsDirs, resp.sid) =
              [files |-> fsFiles, dirs |-> fsDirs, err |-> "nil"]

\* New has succeeded on a directory whose files already had content.
C15_Witness ==
    /\ resp.op = "new"
    /\ resp.fail = "none"
    /\ \E p \in CanonicalIn(WorkDirOf(resp.sid)) :
          p \in DOMAIN resp.preFiles /\ resp.preFiles[p] # <<>>

C17_DeleteRunningSession ==
    (/\ resp.op = "delete"
     /\ resp.status = 200
     /\ StartsWithPmux(resp.sid)
     /\ resp.sid \in resp.preSessions) =>
        /\ resp.sid \notin sessions
        /\ resp.keep => fsFiles = resp.preFiles /\ fsDirs = resp.preDirs
        /\ ~resp.keep => WorkDirOf(resp.sid) \notin fsDirs

\* --------------------------------------------------------------------
\* C18: a DELETE of a well-formed identifier that names no session is
\* answered with 404, with and without keep_files.
C18_DeleteUnknownIs404 ==
    (/\ resp.op = "delete"
     /\ resp.fail # "new"
     /\ StartsWithPmux(resp.sid)
     /\ resp.sid \notin resp.preSessions) => resp.status = 404

\* --------------------------------------------------------------------
\* C19: a DELETE of an identifier without the prefix is answered with 400;
\* no session is killed and no file or directory is removed.
C19_DeleteInvalidIs400 ==
    (resp.op = "delete" /\ resp.fail # "new" /\ ~StartsWithPmux(resp.sid)) =>
        /\ resp.status = 400
        /\ sessions = resp.preSessions
        /\ DOMAIN resp.preFiles \subseteq DOMAIN fsFiles
        /\ resp.preDirs \subseteq fsDirs

\* --------------------------------------------------------------------
\* C20 (as stated): whenever a session directory exists, its sid file holds
\* the name of the directory, newline-terminated.
SessionNames == (DeleteNames \cup ValidNames) \ {""}

C20_SidFileNamesDirectory ==
    \A n \in SessionNames :
        WorkDirOf(n) \in fsDirs =>
            /\ Append(WorkDirOf(n), "sid") \in DOMAIN fsFiles
            /\ fsFiles[Append(WorkDirOf(n), "sid")] = <<n>>

\* C20 (amended): a sid file is empty or holds the name of its directory,
\* newline-terminated; from the write of StartSession until the files are
\* trashed it holds the name.
C20_SidFileEmptyOrName ==
    \A n \in SessionNames :
        /\ Append(WorkDirOf(n), "sid") \in DOMAIN fsFiles =>
              fsFiles[Append(WorkDirOf(n), "sid")] \in {<<>>, <<n>>}
        /\ n \in sidWritten =>
              /\ Append(WorkDirOf(n), "sid") \in DOMAIN fsFiles
              /\ fsFiles[Append(WorkDirOf(n), "sid")] = <<n>>

\* A session was started, its sid file written, and New ran again on its directory.
C20_Witness ==
    /\ resp.op \in {"new", "delete"}
    /\ resp.fail = "none"
    /\ resp.sid \in sidWritten
    /\ resp.sid \in sessions

\* ---- C21
\* C21: for every request body b without a newline, POST /command writes
\* "mode=command\n" + b + "\n" to the rendezvous socket, and the bridge (with
\* a command handler configured) invokes the handler exactly once, with
\* exactly b; the connection registers no progress subscriber.  Stated of the
\* connection once handleConn has returned.
C21_CommandReachesHandler ==
    (csent.by = "command" /\ ~Contains(csent.body, NL)) =>
        /\ cpc = "conn" => cwire = <<"mode=command", NL>> \o csent.body \o <<NL>>
        /\ (cpc = "closed" /\ onCommand) => handled = <<csent.body>>
        /\ csubs = 0

\* A command with text ("cancel" among it) has been handled.
C21_Witness ==
    /\ csent.by = "command"
    /\ cpc = "closed"
    /\ onCommand
    /\ Len(csent.body) = MaxBody
    /\ Contains(csent.body, "cancel")
    /\ handled = <<csent.body>>

\* ---- C22 (the code blocks or panics: see WriteSend, SubStall and SubClose)
\* C22: after the command handler of the mock worker has cancelled the
\* context (a command containing "cancel"), the worker eventually exits: its
\* tick loop finds the context cancelled and returns, also when the
\* cancellation comes in the middle of a progress write to the subscribers.
\* (Run then returns success and the "success" callback is posted: C12.)
\* Checked under FairMock.
C22_CancelEndsWorker == ctxDone ~> tickDone

\* ---- C23 (original statement: fails without --stderr, or when the open fails)
\* C23: on any error of Run (registration, worker, server or callback
\* failure) the error message has been appended to the session's stderr file
\* when the wrap process returns.
C23_RunErrorInStderrFile ==
    (wrapDone /\ runErr # "nil") => stderrFile = <<runErr>>

\* ---- C23 (amended)
\* C23: when the wrap process was started with --stderr naming the session's
\* stderr file and could open it, the message of any error of Run has been
\* appended to that file when the process returns; without the flag, or when
\* the open failed, nothing is appended to it.  A Run without error appends
\* nothing.
C23_RunErrorInStderrFileIfOpened ==
    wrapDone =>
        stderrFile = IF runErr # "nil" /\ stderrTo = "file" THEN <<runErr>> ELSE <<>>

\* The worker failed, and the message is in the file.
C23_Witness ==
    /\ wrapDone
    /\ stderrTo = "file"
    /\ runErr = "RunFailed"
    /\ stderrFile = <<"RunFailed">>

\* ---- C24 (original statement: the leftover socket file is removed)
\* C24: trashing a session whose directory does not exist is a no-op:
\* trashFiles returns no error and neither creates nor removes any directory
\* entry, the rendezvous socket file in the temporary directory included.
C24_TrashMissingIsNoOp ==
    (tdone /\ ~Exists(preFiles, preDirs, WorkDir)) =>
        /\ terr = "nil"
        /\ files = preFiles
        /\ dirs = preDirs
        /\ sock = preSock

\* ---- C24 (amended)
\* C24: trashing a session whose directory does not exist returns no error,
\* counts nothing, and creates or removes no entry below the root directory;
\* the rendezvous socket file is gone afterwards.
C24_TrashMissingDirectory ==
    (tdone /\ ~Exists(preFiles, preDirs, WorkDir)) =>
        /\ terr = "nil"
        /\ found = 0
        /\ files = preFiles
        /\ dirs = preDirs
        /\ ~sock

\* trashFiles has run with no session directory and a socket file left over.
C24_Witness ==
    /\ tdone
    /\ ~Exists(preFiles, preDirs, WorkDir)
    /\ preSock
    /\ found = 0
    /\ terr = "nil"

\* ---- C25 (the code fans out after it has released the last mutex)
\* C25: Write updates last and fans out under the last mutex, so that at the
\* moment a new subscriber is inserted into the clients map, the payload
\* seeded into its channel is not older than the latest payload already
\* fanned out to the subscribers in the map.
C25_SeedNotOlderThanFanOut ==
    [][\A s \in Subs :
          (spc[s] = "reg" /\ spc'[s] = "loop") => SeededPayload(chan[s]) >= fanned]_vars

\* ---- C27 (the code materializes the directory of the session it deletes)
\* The state of session n on directories D and tmux sessions S.  "Absent" is
\* Missing or Trashed (no directory, no tmux session), "Present" is
\* Materialized or Exited (the directory, no tmux session).
SessionState(D, S, n) ==
    IF n \in S THEN "Running"
    ELSE IF WorkDirOf(n) \in D THEN "Present"
    ELSE "Absent"

\* The changes of state the lifecycle allows each operation to make.
AllowedBy(op) ==
    CASE op = "create" -> {<<"Absent", "Present">>, <<"Absent", "Running">>,
                           <<"Present", "Running">>, <<"Present", "Absent">>}
      [] op = "new"    -> {<<"Absent", "Present">>}
      [] op = "delete" -> {<<"Running", "Present">>, <<"Running", "Absent">>,
                           <<"Present", "Absent">>}
      [] OTHER         -> {}

\* C27: a session only moves along Missing -> Materialized -> Running ->
\* Exited -> Trashed, Materialized -> Trashed and Running -> Trashed: a create
\* or a wrap run materializes or starts a session, a delete kills or trashes
\* one, and no request makes any other change; in particular a delete never
\* takes a Missing or Trashed session to Materialized or Running.  Stated of
\* the state right after a request, against the state it started in.
C27_OnlyAllowedTransitions ==
    resp.op # "none" =>
        \A n \in SessionNames :
            LET a == SessionState(resp.preDirs, resp.preSessions, n)
                b == SessionState(fsDirs, sessions, n)
            IN  a # b => <<a, b>> \in AllowedBy(resp.op)

\* ---- C26
\* C26: in every execution of Run the registration POST, if one is
\* configured, has completed (with a 200) before the worker is launched, and
\* the success callback is posted only after the worker has exited and the
\* shutdown of the wrapper HTTP server has been invoked.
C26_RunOrder ==
    /\ (worker # "none" /\ regURL) => (regPosts = 1 /\ regOK)
    /\ callbacks # <<>> =>
          /\ callbacks = <<"success">>
          /\ worker = "exited"
          /\ shutdown

\* A registered run has posted its success callback.
C26_Witness ==
    /\ regURL
    /\ regPosts = 1
    /\ callbacks = <<"success">>
    /\ worker = "exited"
    /\ shutdown
    /\ rpc = "returned"

SubscribedAfterLast(s) ==
    /\ spc[s] \in {"reg", "loop"}
    /\ nwritten >= 1
    /\ subStart[s] = nwritten

\* C29: latest-value replay.  A subscriber that subscribes after the
\* producer wrote its last payload pN finds pN in its channel and, with no
\* further Write and its context live, eventually receives pN as its first
\* payload; a subscriber that subscribes before any Write starts with an
\* empty channel.  Checked under FairOpen: Close only stops Accept and has no
\* part in what an accepted connection finds and receives.
C29_LatestValueReplay ==
    /\ [](\A s \in Subs :
             /\ (SubscribedAfterLast(s) /\ firstRecv[s] = 0) => chan[s] = <<nwritten>>
             /\ (spc[s] = "reg" /\ nwritten = 0) => chan[s] = <<>>)
    /\ \A s \in Subs :
          SubscribedAfterLast(s) ~>
              (firstRecv[s] = subStart[s] \/ nwritten > subStart[s] \/ ctxDone)

\* A subscriber that came after the last Write has received its payload, and
\* nothing else was ever sent to it.
C29_Witness ==
    \E s \in Subs :
        /\ subStart[s] = MaxWrites
        /\ nwritten = MaxWrites
        /\ firstRecv[s] = MaxWrites
        /\ fanned = 0
        /\ ~ctxDone

\* ---- C30
\* What the client wrote to the connection.
Written ==
    IF csent.by = "command" THEN <<"mode=command", NL>> \o csent.body \o <<NL>>
    ELSE IF csent.by = "progress" THEN <<"mode=progress", NL>>
    ELSE csent.body

\* C30: when no command handler is configured, a connection that announces
\* mode=command yields the NoCommandHandler error: the handler is not
\* invoked, the command line is not consumed (all that follows the header is
\* still unread), the connection is closed, no subscriber is registered, and
\* the bridge state (last, clients) is unchanged.  Stated of the connection
\* from the switch of handleConn on.
C30_NoCommandHandler ==
    (/\ ~onCommand
     /\ cpc \in {"readcmd", "closed"}
     /\ cerr # "ReadHeader"
     /\ ModeOf(chdr) = "command") =>
        /\ handled = <<>>
        /\ cwire = SubSeq(Written, Len(chdr) + 1, Len(Written))
        /\ csubs = 0
        /\ last = 0 /\ clients = <<>>
        /\ cpc = "closed" => cerr = "NoCommandHandler"

\* A POST /command with a body has met a bridge without handler.
C30_Witness ==
    /\ ~onCommand
    /\ cpc = "closed"
    /\ csent.by = "command"
    /\ cerr = "NoCommandHandler"
    /\ Len(csent.body) = MaxBody
    /\ cwire = csent.body \o <<NL>>

\* ---- C31
\* The header line starts with the marker (strings.HasPrefix).
StartsWith(header, marker) == header # <<>> /\ header[1] = marker

\* What the connection became at the switch of handleConn: a subscriber
\* (writeUpdates ran getTx), a command connection (readCommand ran), or
\* neither.
Became ==
    IF csubs > 0 THEN "progress"
    ELSE IF cpc = "readcmd" \/ (cpc = "closed" /\ cerr \notin {"ReadHeader", "UnrecognisedMode"})
         THEN "command"
    ELSE "none"

\* C31: once the header line of a connection is read and the switch taken,
\* the connection is a progress subscriber exactly when the header starts
\* with mode=progress, a command connection exactly when it starts with
\* mode=command, and for every other header it is closed with no subscriber
\* registered and the command handler not invoked.
C31_ModeByPrefix ==
    (cpc \in {"readcmd", "streaming", "closed"} /\ cerr # "ReadHeader") =>
        /\ (Became = "progress") <=> StartsWith(chdr, "mode=progress")
        /\ (Became = "command") <=> StartsWith(chdr, "mode=command")
        /\ (~StartsWith(chdr, "mode=progress") /\ ~StartsWith(chdr, "mode=command")) =>
              (cpc = "closed" /\ csubs = 0 /\ handled = <<>>)

\* ---- C32
\* Subscribers that hold a key: getTx has read the clock for them.
Keyed == {s \in Subs : spc[s] \notin {"init", "conn"}}

\* Subscribers that are registered and have not unsubscribed.
Live == {s \in Subs : spc[s] \in {"loop", "write", "stalled", "close", "unreg"}}

\* C32: every subscription has a key no other subscription of the bridge
\* has, also when two subscriptions read the same clock value; so every live
\* subscriber has its own entry in the clients map (its key maps to its
\* channel), and the unsubscribe of another subscriber cannot remove it.
C32_UniqueKeys ==
    /\ \A s \in Keyed, r \in Keyed : s # r => skey[s] # skey[r]
    /\ \A s \in Live : skey[s] \in DOMAIN clients /\ clients[skey[s]] = s

\* ---- C33
\* C33: lock discipline of the multiplexer.  A statement that reads or writes
\* last.u is executed by a goroutine that holds the last mutex, one that
\* reads or writes clients.m by a goroutine that holds the clients mutex, and
\* no goroutine is about to acquire the last mutex while it holds the clients
\* mutex.
C33_LockDiscipline ==
    /\ acc.mu # "none" => holder[acc.mu] = acc.who
    /\ \A g \in Goroutines :
          NextStmt(g) = LockOf("last") => holder["clients"] # g

\* The producer is in its fan-out under the clients mutex, having just
\* read the map, while one subscriber holds the last mutex in getTx and
\* another waits for the clients mutex in tx.close.
C33_Witness ==
    /\ holder["clients"] = Producer
    /\ acc = [who |-> Producer, mu |-> "clients"]
    /\ \E s \in Subs : holder["last"] = s
    /\ \E s \in Subs : lpc[s] > Len(GetTxCode) + 1 /\ NextStmt(s) = LockOf("clients")

\* ---- C34
\* C34: after trashFiles returns, the rendezvous socket file of the session
\* does not exist, whether the session directory was removed or kept.
C34_SocketGoneAfterTrash ==
    tdone => ~sock

\* ---- C35
\* The session directory existed when trashFiles started and held nothing but
\* canonical files, at least one of them missing.
CanonicalFileMissing ==
    /\ WorkDir \in preDirs
    /\ Below(preDirs) = {}
    /\ Below(preFiles) \subseteq {Append(WorkDir, c) : c \in Canonical}
    /\ Below(preFiles) # {Append(WorkDir, c) : c \in Canonical}

RECURSIVE ParseFrom(_, _, _, _, _, _)
ParseFrom(s, i, inQ, field, rec, recs) ==
    IF i > Len(s)
    THEN IF field = <<>> /\ rec = <<>> THEN recs ELSE Append(recs, Append(rec, field))
    ELSE IF inQ
    THEN IF s[i] = Quote
         THEN IF i < Len(s) /\ s[i + 1] = Quote
              THEN ParseFrom(s, i + 2, TRUE, Append(field, Quote), rec, recs)
              ELSE ParseFrom(s, i + 1, FALSE, field, rec, recs)
         ELSE ParseFrom(s, i + 1, TRUE, Append(field, s[i]), rec, recs)
    ELSE IF s[i] = Quote THEN ParseFrom(s, i + 1, TRUE, field, rec, recs)
    ELSE IF s[i] = Comma THEN ParseFrom(s, i + 1, FALSE, <<>>, Append(rec, field), recs)
    ELSE IF s[i] = NL THEN ParseFrom(s, i + 1, FALSE, <<>>, <<>>, Append(recs, Append(rec, field)))
    ELSE ParseFrom(s, i + 1, FALSE, Append(field, s[i]), rec, recs)

ParseCsv(s) == ParseFrom(s, 1, FALSE, <<>>, <<>>, <<>>)

\* The payloads one after the other.
RECURSIVE Flatten(_)
Flatten(ps) == IF ps = <<>> THEN <<>> ELSE Head(ps) \o Flatten(Tail(ps))

\* The rows the calls made so far should have produced.
RowsOfCalls ==
    (IF calls = <<>> THEN <<>> ELSE <<Header>>) \o [i \in 1 .. Len(calls) |-> RecordOf(calls[i])]

\* C36 (emission): read as CSV, what the calls of WriteProgressUpdate handed
\* to the bridge is the header row once, before the first record, and then
\* one record of five columns per call, in call order, with the values passed.
C36_Emitted ==
    /\ ParseCsv(Flatten(payloads)) = RowsOfCalls
    /\ \A i \in 1 .. Len(calls) :
          /\ ParseCsv(payloads[i]) = (IF i = 1 THEN <<Header>> ELSE <<>>) \o <<RecordOf(calls[i])>>
          /\ Len(RecordOf(calls[i])) = 5

\* C36: over any sequence of WriteProgressUpdate calls on one bridge the
\* header row is emitted exactly once and before the first record, every
\* call emits exactly one five-column record, and a subscriber never
\* receives the payload of a call after the payload of a later call: its
\* stream carries the records in call order.
C36_HeaderOnceRecordsInOrder ==
    /\ []C36_Emitted
    /\ [][\A s \in Subs : lastRecv'[s] >= lastRecv[s]]_vars

\* Two calls have been made, one with a description that needs quoting, and
\* a subscriber has received the payloads of both.
C36_Witness ==
    /\ Len(calls) = MaxWrites
    /\ \E i \in 1 .. Len(calls) : FieldNeedsQuotes(calls[i].d)
    /\ \E s \in Subs : firstRecv[s] = 1 /\ lastRecv[s] = MaxWrites

\* ---- C37
\* C37: Write never sends on a subscriber channel that has been closed: in
\* every interleaving of a Write with an unsubscribe, the channel Write is
\* about to send on is open, and the process has not panicked.
C37_NoSendOnClosedChannel ==
    /\ wpc = "send" => ~closed[clients[wcur]]
    /\ ~panicked

\* ---- C38
\* The entries (files and directories) below the root directory.
Entries(f, D) == DOMAIN f \cup D

\* C38: whatever methods were called on a wrapper before, a Trash of it
\* removes only entries inside the wrapper's own session directory, root/sid
\* with the identifier the wrapper was made with; in particular, after
\* KillSession has cleared p.sid, Trash removes no canonical file of another
\* session below the same root.  (A step that ends with pwOp.op = "trash" and
\* no response is a step of the wrapper's Trash.)
C38_TrashStaysInOwnDirectory ==
    [][(pwOp'.op = "trash" /\ resp' = NoResponse) =>
          \A p \in Entries(fsFiles, fsDirs) \ Entries(fsFiles', fsDirs') :
              IsPrefix(WorkDirOf(pwOwn), p)]_vars

\* ---- C39
\* C39: handling a DELETE request creates neither a session directory nor a
\* canonical file: if the requested identifier had no directory before the
\* request it has none after it, and no canonical file of it that was missing
\* is there afterwards, whether the request succeeds or fails and in both
\* keep_files modes.
C39_DeleteCreatesNothing ==
    (resp.op = "delete" /\ resp.sid # "") =>
        /\ WorkDirOf(resp.sid) \notin resp.preDirs => WorkDirOf(resp.sid) \notin fsDirs
        /\ \A p \in CanonicalIn(WorkDirOf(resp.sid)) :
              p \notin DOMAIN resp.preFiles => p \notin DOMAIN fsFiles

\* ---- C40
\* The request answered last was a DELETE that killed a running session and
\* trashed its files, and the session's directory is gone.
TrashedByDelete ==
    /\ resp.op = "delete"
    /\ ~resp.keep
    /\ resp.status = 200
    /\ resp.sid \in resp.preSessions
    /\ resp.sid \notin sessions
    /\ WorkDirOf(resp.sid) \notin fsDirs

\* C40: once a DELETE has trashed a session its directory stays absent: no
\* step of the start-up of the wrap process launched for that session,
\* however it interleaves with the DELETE handler, re-creates the directory
\* after the trash completed.
C40_TrashedStaysAbsent ==
    [][(TrashedByDelete /\ wproc' # wproc) => WorkDirOf(resp.sid) \notin fsDirs']_vars


=============================================================================
